---- MODULE Spec2Model ----
(***************************************************************************)
(* A model of uro-go, the URL declutterer: the library Processor of        *)
(* uro.go (construction, Process, Reset, Count, Results) with its filter   *)
(* chain, numeric pattern generalizer and three-level dedup store.         *)
(*                                                                         *)
(* URLs, hosts, paths and parameter names are TLA+ strings; the string     *)
(* functions of the Go standard library that the code calls are operators  *)
(* over them, written with Len, SubSeq and \o.                             *)
(***************************************************************************)
EXTENDS Bags, FiniteSets, Integers, Sequences, TLC

(***************************************************************************)
(* Go standard library: package strings                                    *)
(***************************************************************************)

\* s[i] as a one-character string (1-based).
Ch(s, i) == SubSeq(s, i, i)

\* s[i:] and s[:j] with Go's 0-based half-open slices, as 1-based SubSeq.
From(s, i) == SubSeq(s, i, Len(s))

Upto(s, j) == SubSeq(s, 1, j)

HasPrefix(s, p) == Len(s) >= Len(p) /\ Upto(s, Len(p)) = p

HasSuffix(s, p) == Len(s) >= Len(p) /\ From(s, Len(s) - Len(p) + 1) = p

TrimSuffix(s, p) == IF HasSuffix(s, p) THEN Upto(s, Len(s) - Len(p)) ELSE s

\* Positions (1-based) at which the one-character string c occurs in s.
Positions(s, c) == {i \in 1..Len(s) : Ch(s, i) = c}

SetMin(S) == CHOOSE x \in S : \A y \in S : x <= y

SetMax(S) == CHOOSE x \in S : \A y \in S : x >= y

\* strings.Index / strings.LastIndex for a one-character needle; 0 = absent.
Index(s, c) == IF Positions(s, c) = {} THEN 0 ELSE SetMin(Positions(s, c))

LastIndex(s, c) == IF Positions(s, c) = {} THEN 0 ELSE SetMax(Positions(s, c))

Contains(s, c) == Positions(s, c) # {}

\* strings.Count(s, c) for a one-character c.
Count(s, c) == Cardinality(Positions(s, c))

\* White space of the model's alphabet (strings.TrimSpace trims these).
Space == {" ", "\t"}

RECURSIVE TrimLeft(_)
TrimLeft(s) == IF Len(s) > 0 /\ Ch(s, 1) \in Space THEN TrimLeft(From(s, 2)) ELSE s

RECURSIVE TrimRight(_)
TrimRight(s) ==
    IF Len(s) > 0 /\ Ch(s, Len(s)) \in Space THEN TrimRight(Upto(s, Len(s) - 1)) ELSE s

TrimSpace(s) == TrimRight(TrimLeft(s))

\* strings.Split(s, c) for a one-character separator: Count+1 pieces.
RECURSIVE Split(_, _)
Split(s, c) ==
    IF Index(s, c) = 0 THEN <<s>>
    ELSE <<Upto(s, Index(s, c) - 1)>> \o Split(From(s, Index(s, c) + 1), c)

\* strings.Join(parts, c).
RECURSIVE Join(_, _)
Join(parts, c) ==
    IF Len(parts) = 0 THEN ""
    ELSE IF Len(parts) = 1 THEN parts[1]
    ELSE parts[1] \o c \o Join(Tail(parts), c)

\* strings.ToLower over the model's alphabet (upper-case letters it uses).
LowerOf(c) ==
    CASE c = "A" -> "a" [] c = "C" -> "c" [] c = "S" -> "s"
      [] c = "P" -> "p" [] c = "H" -> "h" [] OTHER -> c

RECURSIVE ToLower(_)
ToLower(s) == IF Len(s) = 0 THEN "" ELSE LowerOf(Ch(s, 1)) \o ToLower(From(s, 2))

\* The model writes a byte that is not valid UTF-8 (0xFF, say) as this
\* character; strings.ToValidUTF8(s, "") deletes every such byte.
InvalidByte == "^"

RECURSIVE ToValidUTF8(_)
ToValidUTF8(s) ==
    IF Len(s) = 0 THEN ""
    ELSE IF Ch(s, 1) = InvalidByte THEN ToValidUTF8(From(s, 2))
    ELSE Ch(s, 1) \o ToValidUTF8(From(s, 2))

Digits == {"0", "1", "2", "3", "4", "5", "6", "7", "8", "9"}

Letters ==
    {"a", "b", "c", "d", "e", "f", "g", "h", "i", "j", "k", "l", "m", "n", "o",
     "p", "q", "r", "s", "t", "u", "v", "w", "x", "y", "z",
     "A", "C", "S", "P", "H"}


AllIn(s, S) == \A i \in 1..Len(s) : Ch(s, i) \in S

(***************************************************************************)
(* Go standard library: net/url.Parse, for lines over the model's alphabet *)
(* (no '%', '@', '[' or control bytes).  The result is a record: err is    *)
(* TRUE when Parse returns an error, else Scheme, Host, Path and RawQuery  *)
(* are the fields of the *url.URL.                                         *)
(***************************************************************************)

ParseError == [err |-> TRUE, Scheme |-> "", Host |-> "", Path |-> "", RawQuery |-> ""]

\* getScheme: the length of the scheme (the text before the first ':' when
\* it is a letter followed by letters, digits, '+', '-', '.'); 0 when the
\* string has no scheme; -1 for the error "missing protocol scheme".
RECURSIVE getSchemeFrom(_, _)
getSchemeFrom(s, i) ==
    IF i > Len(s) THEN 0
    ELSE IF Ch(s, i) \in Letters THEN getSchemeFrom(s, i + 1)
    ELSE IF Ch(s, i) \in Digits \cup {"+", "-", "."}
         THEN (IF i = 1 THEN 0 ELSE getSchemeFrom(s, i + 1))
    ELSE IF Ch(s, i) = ":" THEN (IF i = 1 THEN -1 ELSE i - 1)
    ELSE 0

getScheme(s) == getSchemeFrom(s, 1)

\* parseHost / validOptionalPort: a ':' in the host must be followed by
\* digits only, and the host may hold no byte that needs escaping.
HostBytes == Letters \cup Digits \cup {"-", ".", ":", "=", "&", "+"}

validHost(h) ==
    /\ AllIn(h, HostBytes)
    /\ LastIndex(h, ":") # 0 => AllIn(From(h, LastIndex(h, ":") + 1), Digits)

\* The part of Parse after the scheme has been cut off: rest is what follows
\* "scheme:" (or the whole string when there is no scheme).
\* The authority auth0 (what follows "//") cut at its first '/', at sl.
parseAuthority(scheme, auth0, sl, rawq) ==
    IF ~validHost(IF sl = 0 THEN auth0 ELSE Upto(auth0, sl - 1)) THEN ParseError
    ELSE [err |-> FALSE, Scheme |-> scheme,
          Host |-> IF sl = 0 THEN auth0 ELSE Upto(auth0, sl - 1),
          Path |-> IF sl = 0 THEN "" ELSE From(auth0, sl), RawQuery |-> rawq]

\* Parse once the query rawq is cut off rest.
parsePath(scheme, rest, rawq) ==
    IF ~HasPrefix(rest, "/")
    THEN IF scheme # ""
         THEN \* rootless path: the URL is opaque and has no host
              [err |-> FALSE, Scheme |-> scheme, Host |-> "", Path |-> "",
               RawQuery |-> rawq]
         ELSE IF Contains(Split(rest, "/")[1], ":")
         THEN ParseError  \* first path segment cannot contain colon
         ELSE [err |-> FALSE, Scheme |-> "", Host |-> "", Path |-> rest,
               RawQuery |-> rawq]
    ELSE IF HasPrefix(rest, "//") /\ (scheme # "" \/ ~HasPrefix(rest, "///"))
    THEN parseAuthority(scheme, From(rest, 3), Index(From(rest, 3), "/"), rawq)
    ELSE [err |-> FALSE, Scheme |-> scheme, Host |-> "", Path |-> rest,
          RawQuery |-> rawq]

\* The cut of rest0 at its first '?', at q; onlyMark when the only '?' is
\* the last byte.
cutQuery(scheme, rest0, onlyMark, q) ==
    parsePath(scheme,
              IF onlyMark THEN Upto(rest0, Len(rest0) - 1)
              ELSE IF q = 0 THEN rest0 ELSE Upto(rest0, q - 1),
              IF onlyMark \/ q = 0 THEN "" ELSE From(rest0, q + 1))

parseRest(scheme, rest0) ==
    cutQuery(scheme, rest0, HasSuffix(rest0, "?") /\ Count(rest0, "?") = 1,
             Index(rest0, "?"))

\* Parse once the fragment is cut off: n is getScheme(u).
parseScheme(u, n) ==
    IF n = -1 THEN ParseError
    ELSE IF u = "*"
    THEN [err |-> FALSE, Scheme |-> "", Host |-> "", Path |-> "*", RawQuery |-> ""]
    ELSE IF n = 0 THEN parseRest("", u)
    ELSE parseRest(ToLower(Upto(u, n)), From(u, n + 2))

parseNoFragment(u) == parseScheme(u, getScheme(u))

\* strings.Cut(rawURL, "#"): the text before the '#' at position h, if any.
cutFragment(rawURL, h) == IF h = 0 THEN rawURL ELSE Upto(rawURL, h - 1)

Parse(rawURL) == parseNoFragment(cutFragment(rawURL, Index(rawURL, "#")))

(***************************************************************************)
(* uro.go: helper functions                                                *)
(***************************************************************************)

EmptyParams == [n \in {} |-> ""]

\* putPair that keeps the value a name already has.
putPairFirstWins(result, pair) ==
    LET eq   == Index(pair, "=")
        name == IF eq = 0 THEN pair ELSE Upto(pair, eq - 1)
        val  == IF eq = 0 THEN "" ELSE From(pair, eq + 1)
    IN  IF name = "" \/ name \in DOMAIN result THEN result
        ELSE [n \in DOMAIN result \cup {name} |-> IF n = name THEN val ELSE result[n]]

\* One "name=value" segment of a query, applied to the map built so far.
putPair(result, pair) ==
    LET eq   == Index(pair, "=")
        name == IF eq = 0 THEN pair ELSE Upto(pair, eq - 1)
        val  == IF eq = 0 THEN "" ELSE From(pair, eq + 1)
    IN  IF name = "" THEN result
        ELSE [n \in DOMAIN result \cup {name} |-> IF n = name THEN val ELSE result[n]]

RECURSIVE putPairs(_, _)
putPairs(result, pairs) ==
    IF Len(pairs) = 0 THEN result
    ELSE putPairs(putPair(result, Head(pairs)), Tail(pairs))

paramsToMap(query) ==
    IF query = "" THEN EmptyParams ELSE putPairs(EmptyParams, Split(query, "&"))

\* The names stored for a path: the union of the keys of its ParamSets.
storedNames(existing) == UNION {DOMAIN existing[i] : i \in 1..Len(existing)}

\* compareParams with the test of novelty left out: any ParamSet is new.
compareParamsAnyParam(existing, new) == DOMAIN new # {}

\* compareParams comparing whole name sets instead of looking for a new name.
compareParamsExact(existing, new) ==
    \A i \in 1..Len(existing) : DOMAIN existing[i] # DOMAIN new

\* compareParams comparing the ParamSets, values included.
compareParamsValues(existing, new) == \A i \in 1..Len(existing) : existing[i] # new

compareParams(existing, new) == \E key \in DOMAIN new : key \notin storedNames(existing)

\* The text after the last '/' of the path.
lastPart(path) == From(path, LastIndex(path, "/") + 1)

hasExtension(path) == Contains(lastPart(path), ".")

\* getExtension without the strings.ToLower.
getExtensionRaw(path) ==
    IF LastIndex(lastPart(path), ".") = 0 THEN ""
    ELSE From(lastPart(path), LastIndex(lastPart(path), ".") + 1)

getExtension(path) ==
    IF LastIndex(lastPart(path), ".") = 0 THEN ""
    ELSE ToLower(From(lastPart(path), LastIndex(lastPart(path), ".") + 1))

isDigit(s) == s # "" /\ AllIn(s, Digits)

\* regexp.QuoteMeta: a backslash before every regular-expression metacharacter.
MetaBytes == {"\\", ".", "+", "*", "?", "(", ")", "|", "[", "]", "{", "}", "^", "$"}

RECURSIVE QuoteMeta(_)
QuoteMeta(s) ==
    IF Len(s) = 0 THEN ""
    ELSE (IF Ch(s, 1) \in MetaBytes THEN "\\" ELSE "") \o Ch(s, 1) \o QuoteMeta(From(s, 2))

\* reInt without its alternatives '?' and '$': /\d+/ .
reIntMatchSlash(path) ==
    \E i \in 1..Len(path) : \E j \in (i + 1)..(Len(path) - 1) :
        /\ Ch(path, i) = "/"
        /\ AllIn(SubSeq(path, i + 1, j), Digits)
        /\ Ch(path, j + 1) = "/"

\* reInt = /\d+([?/]|$) : a '/' followed by one or more digits and then a
\* '?', a '/' or the end of the string.
reIntMatch(path) ==
    \E i \in 1..Len(path) : \E j \in (i + 1)..Len(path) :
        /\ Ch(path, i) = "/"
        /\ AllIn(SubSeq(path, i + 1, j), Digits)
        /\ (j = Len(path) \/ Ch(path, j + 1) \in {"?", "/"})

\* The end of the longest run of digits of s that starts at position i
\* (i - 1 when s[i] is no digit).
RECURSIVE digitsEnd(_, _)
digitsEnd(s, i) ==
    IF i <= Len(s) /\ Ch(s, i) \in Digits THEN digitsEnd(s, i + 1) ELSE i - 1

At(s, i, w) == i >= 1 /\ i + Len(w) - 1 <= Len(s) /\ SubSeq(s, i, i + Len(w) - 1) = w

\* reContent = (post|blog)s?|docs|support/|/(\d{4}|pages?)/\d+/ matched at
\* position i: the position of the last byte of the match, 0 when there is none.
\* The four alternatives start with different bytes, so at most one applies.
reContentAt(s, i) ==
    IF At(s, i, "post") \/ At(s, i, "blog")
    THEN (IF At(s, i + 4, "s") THEN i + 4 ELSE i + 3)
    ELSE IF At(s, i, "docs") THEN i + 3
    ELSE IF At(s, i, "support/") THEN i + 7
    ELSE IF Ch(s, i) = "/"
    THEN LET k == IF digitsEnd(s, i + 1) >= i + 4 /\ At(s, i + 5, "/") THEN i + 5
                  ELSE IF At(s, i + 1, "pages/") THEN i + 6
                  ELSE IF At(s, i + 1, "page/") THEN i + 5
                  ELSE 0
             e == digitsEnd(s, k + 1)
         IN  IF k # 0 /\ e > k /\ At(s, e + 1, "/") THEN e + 1 ELSE 0
    ELSE 0

\* reContent.FindStringIndex(path): match[1] of the leftmost match, 0 for nil.
reContentEnd(path) ==
    LET starts == {i \in 1..Len(path) : reContentAt(path, i) # 0}
    IN  IF starts = {} THEN 0 ELSE reContentAt(path, SetMin(starts))

(***************************************************************************)
(* uro.go: configuration                                                   *)
(***************************************************************************)

\* One element of an argument list, as cleanArgs normalises it: the set of
\* the names it contributes (trimmed, lower-cased, split on commas).
cleanArg(arg) ==
    IF TrimSpace(arg) = "" THEN {}
    ELSE IF Contains(TrimSpace(arg), ",")
    THEN LET parts == Split(TrimSpace(arg), ",")
         IN  {TrimSpace(ToLower(parts[i])) : i \in 1..Len(parts)} \ {""}
    ELSE {ToLower(TrimSpace(arg))}

\* cleanArgs collects the names in a Go map and returns its keys: a list
\* without duplicates whose order is the map's iteration order.  The model
\* keeps the set; where the order matters it is drawn from Orders.
cleanArgs(args) == UNION {cleanArg(args[i]) : i \in 1..Len(args)}

\* Every list that enumerates the set S once: the orders in which ranging
\* over a Go map can yield its keys.
Orders(S) ==
    {o \in [1..Cardinality(S) -> S] : \A i, j \in 1..Cardinality(S) : o[i] = o[j] => i = j}

normalizeFilterName(name) ==
    CASE name = "hasparam" -> "hasparams"
      [] name = "noparam" -> "noparams"
      [] name = "hasexts" -> "hasext"
      [] name = "noexts" -> "noext"
      [] OTHER -> name

ValidFilters ==
    {"hasext", "noext", "hasparams", "noparams", "whitelist", "blacklist",
     "removecontent", "vuln"}

isValidFilter(name) == name \in ValidFilters

SpecialFilters == {"keepcontent", "keepslash", "allexts"}

defaultBlacklist ==
    {"css", "png", "jpg", "jpeg", "svg", "ico", "webp", "scss", "tif", "tiff",
     "ttf", "otf", "woff", "woff2", "gif", "pdf", "bmp", "eot", "mp3", "mp4", "avi"}

\* The part of the curated parameter-name list (config.VulnParams, the
\* vulnParams of uro.go) that the model's queries can hit.
vulnParams == {"id", "cmd", "redirect", "page", "file", "q", "s", "p", "url", "role"}

RECURSIVE SelectValid(_)
SelectValid(fs) ==
    IF Len(fs) = 0 THEN <<>>
    ELSE (IF Head(fs) \notin SpecialFilters /\ isValidFilter(normalizeFilterName(Head(fs)))
          THEN <<normalizeFilterName(Head(fs))>> ELSE <<>>) \o SelectValid(Tail(fs))

\* setupFilters that lets a configured blacklist win over the whitelist.
setupFiltersBlacklistFirst(o, order) ==
    LET fs          == cleanArgs(o.Filters)
        keepContent == "keepcontent" \in fs
        allExts     == "allexts" \in fs
    IN  [keepSlash |-> ("keepslash" \in fs) \/ o.KeepSlash,
         filters   |-> (IF keepContent THEN <<>> ELSE <<"removecontent">>)
                       \o (IF allExts THEN <<>>
                           ELSE IF Len(o.Blacklist) > 0 THEN <<"blacklist">>
                           ELSE IF Len(o.Whitelist) > 0 THEN <<"whitelist">>
                           ELSE <<"blacklist">>)
                       \o SelectValid(order),
         extList   |-> IF allExts THEN {}
                       ELSE IF Len(o.Blacklist) > 0 THEN cleanArgs(o.Blacklist)
                       ELSE IF Len(o.Whitelist) > 0 THEN cleanArgs(o.Whitelist)
                       ELSE defaultBlacklist,
         strict    |-> ("hasext" \in fs) \/ ("noext" \in fs)]

\* setupFilters: the processor's settings for the options o, when ranging
\* over the cleaned filter names yields them in the order `order`.
setupFilters(o, order) ==
    LET fs          == cleanArgs(o.Filters)
        keepContent == "keepcontent" \in fs
        allExts     == "allexts" \in fs
    IN  [keepSlash |-> ("keepslash" \in fs) \/ o.KeepSlash,
         filters   |-> (IF keepContent THEN <<>> ELSE <<"removecontent">>)
                       \o (IF allExts THEN <<>>
                           ELSE IF Len(o.Whitelist) > 0 THEN <<"whitelist">>
                           ELSE <<"blacklist">>)
                       \o SelectValid(order),
         extList   |-> IF allExts THEN {}
                       ELSE IF Len(o.Whitelist) > 0 THEN cleanArgs(o.Whitelist)
                       ELSE IF Len(o.Blacklist) > 0 THEN cleanArgs(o.Blacklist)
                       ELSE defaultBlacklist,
         strict    |-> ("hasext" \in fs) \/ ("noext" \in fs)]

(***************************************************************************)
(* Bounds and inputs                                                       *)
(***************************************************************************)

\* The number of calls (Process, Reset) made on one processor.
MaxCalls == 3

\* uro.Options with everything but the filter names at its zero value.
Toggles(fs) == [Whitelist |-> <<>>, Blacklist |-> <<>>, Filters |-> fs, KeepSlash |-> FALSE]

\* The option values a processor is constructed with.
OptionsSet ==
    {Toggles(fs) : fs \in {<<>>, <<"keepcontent">>, <<"bogus">>, <<"keepslash">>,
                           <<"hasparams">>, <<"allexts">>, <<"vuln">>, <<"noext">>,
                           <<"hasext">>, <<"keepcontent", "removecontent", "hasparams">>}}
    \cup {[Whitelist |-> <<"php", "html">>, Blacklist |-> bl, Filters |-> fs,
           KeepSlash |-> FALSE] :
            bl \in {<<>>, <<"php", "css">>}, fs \in {<<>>, <<"noext">>, <<"noexts">>}}
    \cup {[Whitelist |-> <<>>, Blacklist |-> <<"php">>, Filters |-> <<>>,
           KeepSlash |-> TRUE]}

\* The workloads: each is the set of lines one caller submits, in any order
\* and any number of times.
Workloads ==
    {{"http://h/p", "http://h/p?a=1", "http://h/p?a=2", "http://h/p?a=1&b=2",
      "http://h/p?b=3", "http://h/q?b=1", "http://h/p/", "http://h/p?a"},
     {"http://h/a/1", "http://h/a/2", "http://h/a/1/2", "http://h/a/1/3",
      "http://g/a/1", "http://g/a/2", "http://h/a/2?b=1", "http://h/a/1?b=2"},
     {"http://h/blog", "http://h/blog/y", "http://h/blog/x.css", "http://g/blogs?a=1",
      "http://h/page/1/x", "http://h/x.css", "http://h/a-b-c-d-e", "http://h/a-b-c-d",
      "http://h/blog/a-b-c-d-e"},
     {"", " ", "/", "^", ":x", "http://h h/p", "/a/b", "http://", " http://h/p^ ",
      "http://h/p"},
     {"http://h/p?a=1", "http://h/a/1", "http://g/a/2?a=1&b=1", "http://h/docs/1",
      "http://g/docs/2", "http://h/docs/3.png", "http://h/a/1/", "http://h/p?b=2"},
     {"http://h/index.php", "http://h/about.html", "http://h/api/users",
      "http://h/style.css", "http://h/x.css", "http://h/X.CSS", "http://h/a.b/c",
      "http://h/file."},
     {"http://h/p?id=5", "http://h/p?foo=5", "http://h/p", "http://h/p?ID=5",
      "http://h/q?foo=1&cmd=x", "http://g/p?id=5&foo=1"},
     {"http://h/a", "http://h/a/", "http://h/a//", "http://h/a/1", "http://h/a/1/",
      "http://h", "http://h/", "http://h/blog", "http://h/blog/"},
     {"http://h/p?a=1&a=2", "http://h/p?=x&b=1", "http://h/p?a=b=c", "http://h/p?a&&b=",
      "http://h/p?=", "http://h/q?c=1&c", "http://h/q?c&c=1"},
     {"http://h/a/1?x=1", "http://h/a/1?y=2", "http://h/a/2?z=3", "http://g/a/1?x=1",
      "http://h/a/1"}}

Lines == UNION Workloads

(***************************************************************************)
(* TLC evaluates a definition without parameters or variables once.  The   *)
(* tables below hold the values of the pure functions above on the lines   *)
(* of the workloads, so that a step of the processor looks them up instead *)
(* of scanning the strings again.                                          *)
(***************************************************************************)

\* The normalisation that trims the trailing slash whatever p.keepSlash is.
CanonicalAlwaysTrim(rawURL, keep) == TrimSuffix(TrimSpace(ToValidUTF8(rawURL)), "/")

\* The normalisation at the head of Process (keep = p.keepSlash).
Canonical(rawURL, keep) ==
    IF keep THEN TrimSpace(ToValidUTF8(rawURL))
    ELSE TrimSuffix(TrimSpace(ToValidUTF8(rawURL)), "/")

NoURL == [ok |-> FALSE, host |-> "", path |-> "", params |-> EmptyParams]

\* ParseLine without the test u.Host == "".
ParseLineAnyHost(rawURL, keep) ==
    LET c == Canonical(rawURL, keep)
        u == Parse(c)
    IN  IF c = "" THEN NoURL
        ELSE IF u.err THEN NoURL
        ELSE [ok |-> TRUE, host |-> u.Scheme \o "://" \o u.Host, path |-> u.Path,
              params |-> paramsToMap(u.RawQuery)]

\* Process up to the call of processURL, and the first three lines of
\* processURL: ok is FALSE when Process returns false before that call.
parsedLine(u) ==
    IF u.err \/ u.Host = "" THEN NoURL
    ELSE [ok |-> TRUE, host |-> u.Scheme \o "://" \o u.Host, path |-> u.Path,
          params |-> paramsToMap(u.RawQuery)]

canonicalLine(c) == IF c = "" THEN NoURL ELSE parsedLine(Parse(c))

ParseLine(rawURL, keep) == canonicalLine(Canonical(rawURL, keep))

urlOf == [keep \in BOOLEAN |-> [l \in Lines |-> ParseLine(l, keep)]]

Paths == {urlOf[keep][l].path : keep \in BOOLEAN, l \in Lines}

\* createPattern that escapes the numeric segments like the others.
createPatternKeepDigits(path) ==
    LET parts     == Split(path, "/")
        newParts  == [i \in 1..Len(parts) |-> QuoteMeta(parts[i])]
        digitAt   == {i \in 1..Len(parts) : isDigit(parts[i])}
        lastIndex == IF digitAt = {} THEN 1 ELSE SetMax(digitAt)
    IN  Join(SubSeq(newParts, 1, lastIndex), "/")

createPattern(path) ==
    LET parts     == Split(path, "/")
        newParts  == [i \in 1..Len(parts) |->
                        IF isDigit(parts[i]) THEN "\\d+" ELSE QuoteMeta(parts[i])]
        digitAt   == {i \in 1..Len(parts) : isDigit(parts[i])}
        lastIndex == IF digitAt = {} THEN 1 ELSE SetMax(digitAt)
    IN  Join(SubSeq(newParts, 1, lastIndex), "/")

\* The hyphen test with the threshold one lower: 3 hyphens are too many.
manyHyphensFrom3(path) ==
    \E i \in 1..Len(Split(path, "/")) : Count(Split(path, "/")[i], "-") >= 3

\* The hyphen test of checkContent: some segment holds more than 3 hyphens.
manyHyphens(path) ==
    \E i \in 1..Len(Split(path, "/")) : Count(Split(path, "/")[i], "-") > 3

\* The text checkContent caches on a match of reContent: path[:match[1]].
contentPrefix(path) == Upto(path, reContentEnd(path))

\* getExtension, hasExtension, the hyphen test and the reContent match of
\* each path of the workloads.
extOf == [q \in Paths |-> getExtension(q)]

dotOf == [q \in Paths |-> hasExtension(q)]

hyphensOf == [q \in Paths |-> manyHyphens(q)]

contentOf == [q \in Paths |-> [end |-> reContentEnd(q), prefix |-> contentPrefix(q)]]

\* The numeric-pattern test of processURL for a path: whether reInt matches
\* it, and the pattern createPattern gives it.
pathOf == [q \in Paths |-> [numeric |-> reIntMatch(q), pattern |-> createPattern(q)]]

(***************************************************************************)
(* uro.go: the Processor                                                   *)
(***************************************************************************)

VARIABLES
    opts,             \* Processor.opts
    urlMap,           \* host -> path -> list of ParamSets (DedupStore)
    paramsSeen,       \* SeenParamNames
    patternsSeen,     \* SeenPatterns
    contentPrefixes,  \* ContentPrefixCache
    extList, filters, strict, keepSlash,
    input,            \* the workload: the lines this processor's caller submits
    op,               \* the last call made: "New", "Process" or "Reset"
    arg,              \* the line given to the last Process call
    ret,              \* what the last Process call returned
    kept,             \* the lines for which Process returned true since the last Reset
    dropped,          \* the lines for which Process returned false since the last Reset
    results,          \* the strings the last call returned, if it was Results
    twin,             \* a second processor with the same options, given the same calls
    prev,             \* the four structures, and kept, as they were before the last call
    calls,            \* the number of calls made so far
    pending,          \* parallel mode: each worker's line and where it is with it
    mutex,            \* parallel mode: the worker inside the critical section, or ""
    by,               \* parallel mode: the worker that made the last call, or ""
    sink              \* streaming mode: the URLs passed to the callback, in order

vars ==
    <<opts, urlMap, paramsSeen, patternsSeen, contentPrefixes, extList, filters,
      strict, keepSlash, input, op, arg, ret, kept, prev, calls, pending, mutex, by,
      sink, dropped, results, twin>>

config == <<opts, extList, filters, strict, keepSlash, input>>

pool == <<pending, mutex, by, sink>>

EmptyMap == [k \in {} |-> {}]

\* The four structures and kept, as one record.
Snapshot ==
    [urlMap |-> urlMap, paramsSeen |-> paramsSeen, patternsSeen |-> patternsSeen,
     contentPrefixes |-> contentPrefixes, kept |-> kept, dropped |-> dropped]

Fresh ==
    [urlMap |-> EmptyMap, paramsSeen |-> {}, patternsSeen |-> {},
     contentPrefixes |-> <<>>, kept |-> {}, dropped |-> {}]

\* The processor p that the methods are called on: its structures and the
\* settings the filters read.
Self ==
    [urlMap |-> urlMap, paramsSeen |-> paramsSeen, patternsSeen |-> patternsSeen,
     contentPrefixes |-> contentPrefixes, extList |-> extList, strict |-> strict]

\* checkWhitelist that rejects every path without an extension.
checkWhitelistStrict(p, path) ==
    IF extOf[path] = "" THEN FALSE ELSE extOf[path] \in p.extList

\* checkWhitelist that passes every path without an extension.
checkWhitelistLoose(p, path) ==
    IF extOf[path] = "" THEN TRUE ELSE extOf[path] \in p.extList

checkWhitelist(p, path) ==
    IF extOf[path] = "" THEN ~p.strict ELSE extOf[path] \in p.extList

\* checkBlacklist that passes a path without an extension only when strict
\* mode is off.
checkBlacklistStrict(p, path) ==
    IF extOf[path] = "" THEN ~p.strict ELSE extOf[path] \notin p.extList

checkBlacklist(p, path) ==
    IF extOf[path] = "" THEN TRUE ELSE extOf[path] \notin p.extList

\* checkContent without the loop over the cached prefixes.
checkContentNoCache(path, prefixes) ==
    IF hyphensOf[path]
    THEN [keep |-> FALSE, prefixes |-> prefixes]
    ELSE IF contentOf[path].end # 0
    THEN [keep |-> TRUE, prefixes |-> Append(prefixes, contentOf[path].prefix)]
    ELSE [keep |-> TRUE, prefixes |-> prefixes]

\* checkContent that keeps only the newest prefix.
checkContentReplace(path, prefixes) ==
    IF hyphensOf[path]
    THEN [keep |-> FALSE, prefixes |-> prefixes]
    ELSE IF \E i \in 1..Len(prefixes) : HasPrefix(path, prefixes[i])
    THEN [keep |-> FALSE, prefixes |-> prefixes]
    ELSE IF contentOf[path].end # 0
    THEN [keep |-> TRUE, prefixes |-> <<contentOf[path].prefix>>]
    ELSE [keep |-> TRUE, prefixes |-> prefixes]

\* checkContent reads and appends to p.contentPrefixes: the verdict and the
\* list after the call, for the list `prefixes` before it.
checkContent(path, prefixes) ==
    IF hyphensOf[path]
    THEN [keep |-> FALSE, prefixes |-> prefixes]
    ELSE IF \E i \in 1..Len(prefixes) : HasPrefix(path, prefixes[i])
    THEN [keep |-> FALSE, prefixes |-> prefixes]
    ELSE IF contentOf[path].end # 0
    THEN [keep |-> TRUE, prefixes |-> Append(prefixes, contentOf[path].prefix)]
    ELSE [keep |-> TRUE, prefixes |-> prefixes]

\* checkVuln that is content with any parameter.
checkVulnAnyParam(params) == DOMAIN params # {}

checkVuln(params) == \E param \in DOMAIN params : param \in vulnParams

\* applyFilter of the processor p (its extList and strict), for the content
\* prefix list `prefixes`.
applyFilter(p, name, path, params, prefixes) ==
    CASE name = "hasext" -> [keep |-> dotOf[path], prefixes |-> prefixes]
      [] name = "noext" -> [keep |-> ~dotOf[path], prefixes |-> prefixes]
      [] name = "hasparams" -> [keep |-> DOMAIN params # {}, prefixes |-> prefixes]
      [] name = "noparams" -> [keep |-> DOMAIN params = {}, prefixes |-> prefixes]
      [] name = "whitelist" -> [keep |-> checkWhitelist(p, path), prefixes |-> prefixes]
      [] name = "blacklist" -> [keep |-> checkBlacklist(p, path), prefixes |-> prefixes]
      [] name = "removecontent" -> checkContent(path, prefixes)
      [] name = "vuln" -> [keep |-> checkVuln(params), prefixes |-> prefixes]
      [] OTHER -> [keep |-> TRUE, prefixes |-> prefixes]

\* The loop of applyFilters over the filters fs: applyFiltersFrom runs the
\* first filter and nextFilter, given its verdict r, stops at a rejection or
\* goes on with the rest.
RECURSIVE applyFiltersFrom(_, _, _, _, _)
\* nextFilter that runs the rest of the filters after a rejection as well.
nextFilterNoStop(p, r, fs, path, params) ==
    [keep     |-> r.keep /\ applyFiltersFrom(p, fs, path, params, r.prefixes).keep,
     prefixes |-> applyFiltersFrom(p, fs, path, params, r.prefixes).prefixes]

nextFilter(p, r, fs, path, params) ==
    IF ~r.keep THEN r ELSE applyFiltersFrom(p, fs, path, params, r.prefixes)

applyFiltersFrom(p, fs, path, params, prefixes) ==
    IF Len(fs) = 0 THEN [keep |-> TRUE, prefixes |-> prefixes]
    ELSE nextFilter(p, applyFilter(p, Head(fs), path, params, prefixes), Tail(fs), path,
                    params)

applyFilters(path, params) == applyFiltersFrom(Self, filters, path, params, contentPrefixes)

\* The return value of Process and the four structures after the call.
Outcome(r, m, ps, pt, cp) ==
    [ret |-> r, urlMap |-> m, paramsSeen |-> ps, patternsSeen |-> pt,
     contentPrefixes |-> cp]

\* p.urlMap[host] = make(...) when the host has no map yet.
withHost(m, host) == IF host \in DOMAIN m THEN m ELSE m @@ (host :> EmptyMap)

\* p.urlMap[host][path] = list.
putPath(m, host, path, list) ==
    [m EXCEPT ![host] =
        [q \in DOMAIN m[host] \cup {path} |-> IF q = path THEN list ELSE m[host][q]]]

\* insertURL that keeps a new path with parameters only if a name is new.
insertURLNeedsNewName(host, path, params, old, seen, pats, m, prefixes, numeric, pattern) ==
    IF path \notin DOMAIN m[host]
    THEN IF \/ numeric /\ pattern \in pats
            \/ DOMAIN params # {} /\ DOMAIN params \subseteq old
         THEN Outcome(FALSE, m, seen, pats, prefixes)
         ELSE Outcome(TRUE,
                      putPath(m, host, path, IF DOMAIN params # {} THEN <<params>> ELSE <<>>),
                      seen,
                      IF numeric THEN pats \cup {pattern} ELSE pats,
                      prefixes)
    ELSE IF DOMAIN params \ old # {}
    THEN Outcome(TRUE, putPath(m, host, path, Append(m[host][path], params)),
                 seen, pats, prefixes)
    ELSE IF DOMAIN params # {} /\ compareParams(m[host][path], params)
    THEN Outcome(TRUE, putPath(m, host, path, Append(m[host][path], params)),
                 seen, pats, prefixes)
    ELSE Outcome(FALSE, m, seen, pats, prefixes)

\* insertURL that looks the pattern up before it looks the path up.
insertURLPatternFirst(host, path, params, old, seen, pats, m, prefixes, numeric, pattern) ==
    IF numeric /\ pattern \in pats
    THEN Outcome(FALSE, m, seen, pats, prefixes)
    ELSE IF path \notin DOMAIN m[host]
    THEN Outcome(TRUE,
                 putPath(m, host, path, IF DOMAIN params # {} THEN <<params>> ELSE <<>>),
                 seen,
                 IF numeric THEN pats \cup {pattern} ELSE pats,
                 prefixes)
    ELSE IF DOMAIN params \ old # {}
    THEN Outcome(TRUE, putPath(m, host, path, Append(m[host][path], params)),
                 seen, pats, prefixes)
    ELSE IF DOMAIN params # {} /\ compareParams(m[host][path], params)
    THEN Outcome(TRUE, putPath(m, host, path, Append(m[host][path], params)),
                 seen, pats, prefixes)
    ELSE Outcome(FALSE, m, seen, pats, prefixes)

\* insertURL that stores a new path before it looks its pattern up.
insertURLStoreFirst(host, path, params, old, seen, pats, m, prefixes, numeric, pattern) ==
    IF path \notin DOMAIN m[host]
    THEN IF numeric /\ pattern \in pats
         THEN Outcome(FALSE, putPath(m, host, path, <<>>), seen, pats, prefixes)
         ELSE Outcome(TRUE,
                      putPath(m, host, path, IF DOMAIN params # {} THEN <<params>> ELSE <<>>),
                      seen,
                      IF numeric THEN pats \cup {pattern} ELSE pats,
                      prefixes)
    ELSE IF DOMAIN params \ old # {}
    THEN Outcome(TRUE, putPath(m, host, path, Append(m[host][path], params)),
                 seen, pats, prefixes)
    ELSE IF DOMAIN params # {} /\ compareParams(m[host][path], params)
    THEN Outcome(TRUE, putPath(m, host, path, Append(m[host][path], params)),
                 seen, pats, prefixes)
    ELSE Outcome(FALSE, m, seen, pats, prefixes)

\* processURL after the filters have kept the URL (prefixes is the content
\* prefix list they leave): the update of the seen names and of the store.
\* old and pats are p.paramsSeen and p.patternsSeen at the call, seen is
\* p.paramsSeen with the names of the URL, m is p.urlMap with a map for the
\* host, numeric and pattern are reInt.MatchString(path) and
\* createPattern(path).
insertURL(host, path, params, old, seen, pats, m, prefixes, numeric, pattern) ==
    IF path \notin DOMAIN m[host]
    THEN IF numeric /\ pattern \in pats
         THEN Outcome(FALSE, m, seen, pats, prefixes)
         ELSE Outcome(TRUE,
                      putPath(m, host, path, IF DOMAIN params # {} THEN <<params>> ELSE <<>>),
                      seen,
                      IF numeric THEN pats \cup {pattern} ELSE pats,
                      prefixes)
    ELSE IF DOMAIN params \ old # {}
    THEN Outcome(TRUE, putPath(m, host, path, Append(m[host][path], params)),
                 seen, pats, prefixes)
    ELSE IF DOMAIN params # {} /\ compareParams(m[host][path], params)
    THEN Outcome(TRUE, putPath(m, host, path, Append(m[host][path], params)),
                 seen, pats, prefixes)
    ELSE Outcome(FALSE, m, seen, pats, prefixes)

\* filteredURL that does not record the names of the URL in p.paramsSeen.
filteredURLForgetNames(p, host, path, params, f) ==
    IF ~f.keep
    THEN Outcome(FALSE, p.urlMap, p.paramsSeen, p.patternsSeen, f.prefixes)
    ELSE insertURL(host, path, params, p.paramsSeen, p.paramsSeen,
                   p.patternsSeen, withHost(p.urlMap, host), f.prefixes,
                   pathOf[path].numeric, pathOf[path].pattern)

\* processURL of a processor with the structures p, once the filters have
\* given their verdict f.
filteredURL(p, host, path, params, f) ==
    IF ~f.keep
    THEN Outcome(FALSE, p.urlMap, p.paramsSeen, p.patternsSeen, f.prefixes)
    ELSE insertURL(host, path, params, p.paramsSeen, p.paramsSeen \cup DOMAIN params,
                   p.patternsSeen, withHost(p.urlMap, host), f.prefixes,
                   pathOf[path].numeric, pathOf[path].pattern)

\* processURL of a processor with the structures p and the filter chain fs,
\* for the host, path and params of a parsed line u.
processURL(p, fs, u) ==
    filteredURL(p, u.host, u.path, u.params,
                applyFiltersFrom(p, fs, u.path, u.params, p.contentPrefixes))

\* Process once the line is normalised and parsed into u.
processParsed(p, fs, u) ==
    IF ~u.ok
    THEN Outcome(FALSE, p.urlMap, p.paramsSeen, p.patternsSeen, p.contentPrefixes)
    ELSE processURL(p, fs, u)

\* Process up to its return value.
ProcessOutcome(rawURL) == processParsed(Self, filters, urlOf[keepSlash][rawURL])

(***************************************************************************)
(* internal/processor and internal/filter: the URLProcessor                *)
(***************************************************************************)

\* checkExt: GetExtension of urlutil is getExtension of uro.go word for word.
checkExt(path, exts) ==
    IF extOf[path] = "" THEN [hasExt |-> FALSE, inList |-> FALSE]
    ELSE [hasExt |-> TRUE, inList |-> extOf[path] \in exts]

HasExtFilter(path) == dotOf[path]

NoExtFilter(path) == ~dotOf[path]

WhitelistFilter(path, meta) ==
    checkExt(path, meta.extList).inList
        \/ (~meta.strict /\ ~checkExt(path, meta.extList).hasExt)

\* BlacklistFilter that drops a path without an extension in strict mode.
BlacklistFilterStrict(path, meta) ==
    ~checkExt(path, meta.extList).inList
        /\ (~meta.strict \/ checkExt(path, meta.extList).hasExt)

BlacklistFilter(path, meta) ==
    ~checkExt(path, meta.extList).inList
        \/ (~meta.strict /\ ~checkExt(path, meta.extList).hasExt)

HasParamsFilter(params) == DOMAIN params # {}

NoParamsFilter(params) == DOMAIN params = {}

VulnParamFilter(params) == \E param \in DOMAIN params : param \in vulnParams

\* RemoveContentFilter.Apply: the verdict and f.contentPrefixes after the
\* call, for the list `prefixes` before it.
RemoveContentFilter(path, prefixes) ==
    IF hyphensOf[path]
    THEN [keep |-> FALSE, prefixes |-> prefixes]
    ELSE IF \E i \in 1..Len(prefixes) : HasPrefix(path, prefixes[i])
    THEN [keep |-> FALSE, prefixes |-> prefixes]
    ELSE IF contentOf[path].end # 0
    THEN [keep |-> TRUE, prefixes |-> Append(prefixes, contentOf[path].prefix)]
    ELSE [keep |-> TRUE, prefixes |-> prefixes]

\* The names NewRegistry registers.
Registry ==
    {"hasext", "noext", "hasparams", "noparams", "whitelist", "blacklist",
     "removecontent", "vuln"}

\* f.Apply(path, params, meta) for the registered filter of the given name.
Apply(name, path, params, meta, prefixes) ==
    CASE name = "hasext" -> [keep |-> HasExtFilter(path), prefixes |-> prefixes]
      [] name = "noext" -> [keep |-> NoExtFilter(path), prefixes |-> prefixes]
      [] name = "hasparams" -> [keep |-> HasParamsFilter(params), prefixes |-> prefixes]
      [] name = "noparams" -> [keep |-> NoParamsFilter(params), prefixes |-> prefixes]
      [] name = "whitelist" -> [keep |-> WhitelistFilter(path, meta), prefixes |-> prefixes]
      [] name = "blacklist" -> [keep |-> BlacklistFilter(path, meta), prefixes |-> prefixes]
      [] name = "removecontent" -> RemoveContentFilter(path, prefixes)
      [] name = "vuln" -> [keep |-> VulnParamFilter(params), prefixes |-> prefixes]

\* URLProcessor.applyFilters over the active filters fs.
RECURSIVE activeFiltersFrom(_, _, _, _, _)
nextActive(meta, r, fs, path, params) ==
    IF ~r.keep THEN r ELSE activeFiltersFrom(meta, fs, path, params, r.prefixes)

activeFiltersFrom(meta, fs, path, params, prefixes) ==
    IF Len(fs) = 0 THEN [keep |-> TRUE, prefixes |-> prefixes]
    ELSE nextActive(meta, Apply(Head(fs), path, params, meta, prefixes), Tail(fs), path,
                    params)

\* Config.GetExtList.
GetExtList(cfg) ==
    IF Len(cfg.Whitelist) > 0 THEN {cfg.Whitelist[i] : i \in 1..Len(cfg.Whitelist)}
    ELSE IF Len(cfg.Blacklist) > 0 THEN {cfg.Blacklist[i] : i \in 1..Len(cfg.Blacklist)}
    ELSE defaultBlacklist

\* The user filters of URLProcessor.setupFilters, for the cleaned names fs.
RECURSIVE userNames(_)
userNames(fs) ==
    IF Len(fs) = 0 THEN <<>>
    ELSE (IF Head(fs) \in SpecialFilters THEN <<>>
          ELSE <<normalizeFilterName(Head(fs))>>) \o userNames(Tail(fs))

\* URLProcessor.setupFilters returns an error for these cleaned names.
invalidFilter(fs) ==
    \E f \in fs : f \notin SpecialFilters /\ normalizeFilterName(f) \notin Registry

\* URLProcessor.setupFilters without an error: the active filter names and
\* the filter metadata for the configuration cfg, when ranging over the
\* cleaned filter names yields them in the order `order`.
URLProcessorSetup(cfg, order) ==
    [filters   |-> (IF "keepcontent" \in cleanArgs(cfg.Filters) THEN <<>>
                    ELSE <<"removecontent">>)
                   \o (IF "allexts" \in cleanArgs(cfg.Filters) THEN <<>>
                       ELSE IF Len(cfg.Whitelist) > 0 THEN <<"whitelist">>
                       ELSE <<"blacklist">>)
                   \o userNames(order),
     extList   |-> GetExtList(cfg),
     strict    |-> ("hasext" \in cleanArgs(cfg.Filters))
                       \/ ("noext" \in cleanArgs(cfg.Filters)),
     keepSlash |-> cfg.KeepSlash]

\* URLProcessor.processURL: after the filters its text is that of
\* Processor.processURL, less the return values.
URLProcessorURL(p, u) ==
    filteredURL(p, u.host, u.path, u.params,
                activeFiltersFrom(p, p.filters, u.path, u.params, p.contentPrefixes))

\* The options o with every filter name in its canonical spelling.
canonical(o) ==
    [o EXCEPT !.Filters = [i \in 1..Len(o.Filters) |-> normalizeFilterName(o.Filters[i])]]

\* The names of the filters setupFilters activates without being asked.
DefaultFilters == {"removecontent", "blacklist", "whitelist"}

\* The options o without the names of DefaultFilters.
implicit(o) == [o EXCEPT !.Filters = SelectSeq(o.Filters, LAMBDA f : f \notin DefaultFilters)]

\* A second processor, of the implementation impl, constructed with the
\* settings s.
TwinOf(s, impl) ==
    [impl |-> impl, filters |-> s.filters, extList |-> s.extList, strict |-> s.strict,
     keepSlash |-> s.keepSlash, ret |-> FALSE, urlMap |-> EmptyMap, paramsSeen |-> {},
     patternsSeen |-> {}, contentPrefixes |-> <<>>]

\* The second processors a run is compared with.  "order": the same options,
\* with any iteration order of the cleaned filter names.  "single": the same
\* settings, in a processor whose rule for a stored path is compareParams
\* alone.  "internal": a URLProcessor with the same lists and filter names,
\* the same iteration order and the processor's keep-slash setting.
\* "canonical": the options with every filter name in its canonical spelling.
\* "default": the options without the names of the filters that are active
\* by default.
twinOptions(o, kind) ==
    CASE kind = "canonical" -> canonical(o)
      [] kind = "default" -> implicit(o)
      [] OTHER -> o

\* The second processor for the options o and the library settings s that
\* setupFilters derives from them.
twinFor(o, s, order, kind) ==
    CASE kind = "internal" ->
            TwinOf(URLProcessorSetup([o EXCEPT !.KeepSlash = s.keepSlash], order),
                   "internal")
      [] kind = "single" -> TwinOf(s, "single")
      [] OTHER -> TwinOf(s, "library")

twinsOf(o, order, kind) ==
    {twinFor(o, setupFilters(o, other), other, kind) :
        other \in IF kind \in {"single", "internal"} THEN {order}
                  ELSE Orders(cleanArgs(o.Filters))}

Twins(o, order, kind) == twinsOf(twinOptions(o, kind), order, kind)

\* The processor whose rule for a stored path is 'keep iff the ParamSet is
\* non-empty and has a name absent from the names stored for the path': its
\* processURL once the filters have given their verdict f.
singleURL(p, host, path, params, f) ==
    IF ~f.keep
    THEN Outcome(FALSE, p.urlMap, p.paramsSeen, p.patternsSeen, f.prefixes)
    ELSE insertURL(host, path, params, p.paramsSeen \cup DOMAIN params,
                   p.paramsSeen \cup DOMAIN params, p.patternsSeen,
                   withHost(p.urlMap, host), f.prefixes,
                   pathOf[path].numeric, pathOf[path].pattern)

\* Process of the second processor t on the parsed line u.
twinURL(t, u) ==
    CASE t.impl = "library" -> processURL(t, t.filters, u)
      [] t.impl = "single" ->
            singleURL(t, u.host, u.path, u.params,
                      applyFiltersFrom(t, t.filters, u.path, u.params, t.contentPrefixes))
      [] t.impl = "internal" -> URLProcessorURL(t, u)

twinParsed(t, u) ==
    IF ~u.ok
    THEN Outcome(FALSE, t.urlMap, t.paramsSeen, t.patternsSeen, t.contentPrefixes)
    ELSE twinURL(t, u)

\* The second processor after a Process call with outcome out.
twinAfter(t, out) ==
    [t EXCEPT !.ret = out.ret, !.urlMap = out.urlMap, !.paramsSeen = out.paramsSeen,
              !.patternsSeen = out.patternsSeen, !.contentPrefixes = out.contentPrefixes]

\* The second processor after Reset.
twinReset(t) ==
    [t EXCEPT !.ret = FALSE, !.urlMap = EmptyMap, !.paramsSeen = {},
              !.patternsSeen = {}, !.contentPrefixes = <<>>]

\* The (host, path) pairs stored in m.
StoredPaths(m) == UNION {{<<h, q>> : q \in DOMAIN m[h]} : h \in DOMAIN m}

\* The loop of Count over the (host, path) pairs S of a store m.
RECURSIVE CountOver(_, _)
CountOver(m, S) ==
    IF S = {} THEN 0
    ELSE LET e == CHOOSE e \in S : TRUE
         IN  (IF Len(m[e[1]][e[2]]) > 0 THEN Len(m[e[1]][e[2]]) ELSE 1)
             + CountOver(m, S \ {e})

\* Count over a store m.
CountOf(m) == CountOver(m, StoredPaths(m))

\* The worker pool of parallel mode.
Pool == {"w1", "w2"}

\* A worker that has not taken a line yet.
IdleWorker ==
    [pc |-> "idle", line |-> "", out |-> Outcome(FALSE, EmptyMap, {}, {}, <<>>),
     basis |-> Fresh]

\* NewProcessor: the state after construction with options o of the set O,
\* for a caller with a workload of the set W, next to a second processor of
\* the given kind.
\* The state after NewProcessor(o), s being the settings setupFilters derived,
\* before an input drawn from W, next to a second processor of T.
InitFrom(o, s, T, W) ==
    /\ opts = o
    /\ twin \in T
    /\ urlMap = EmptyMap
    /\ paramsSeen = {}
    /\ patternsSeen = {}
    /\ contentPrefixes = <<>>
    /\ extList = s.extList
    /\ filters = s.filters
    /\ strict = s.strict
    /\ keepSlash = s.keepSlash
    /\ input \in W
    /\ op = "New"
    /\ arg = ""
    /\ ret = FALSE
    /\ kept = {}
    /\ dropped = {}
    /\ results = EmptyBag
    /\ prev = Fresh
    /\ calls = 0
    /\ pending = [w \in Pool |-> IdleWorker]
    /\ mutex = ""
    /\ by = ""
    /\ sink = <<>>

InitTwin(O, W, kind) ==
    \E o \in O : \E order \in Orders(cleanArgs(o.Filters)) :
        InitFrom(o, setupFilters(o, order), Twins(o, order, kind), W)

InitWith(O, W) == InitTwin(O, W, "order")

Init == InitWith(OptionsSet, Workloads)

\* The step a Process call with outcome out makes.
Returns(rawURL, out) ==
    /\ urlMap' = out.urlMap
    /\ paramsSeen' = out.paramsSeen
    /\ patternsSeen' = out.patternsSeen
    /\ contentPrefixes' = out.contentPrefixes
    /\ op' = "Process"
    /\ arg' = rawURL
    /\ ret' = out.ret
    /\ kept' = IF out.ret THEN kept \cup {rawURL} ELSE kept
    /\ dropped' = IF out.ret THEN dropped ELSE dropped \cup {rawURL}
    /\ results' = EmptyBag
    /\ twin' = twinAfter(twin, twinParsed(twin, urlOf[twin.keepSlash][rawURL]))
    /\ prev' = Snapshot
    /\ calls' = calls + 1
    /\ UNCHANGED config

Process(rawURL) ==
    calls < MaxCalls /\ Returns(rawURL, ProcessOutcome(rawURL)) /\ UNCHANGED pool

\* Reset that leaves p.urlMap alone.
ResetKeepsStore ==
    /\ calls < MaxCalls
    /\ urlMap' = urlMap
    /\ paramsSeen' = {}
    /\ patternsSeen' = {}
    /\ contentPrefixes' = <<>>
    /\ op' = "Reset"
    /\ arg' = ""
    /\ ret' = FALSE
    /\ kept' = {}
    /\ dropped' = {}
    /\ results' = EmptyBag
    /\ twin' = twinReset(twin)
    /\ prev' = Snapshot
    /\ calls' = calls + 1
    /\ UNCHANGED <<config, pool>>

\* Reset that leaves p.contentPrefixes alone.
ResetKeepsPrefixes ==
    /\ calls < MaxCalls
    /\ urlMap' = EmptyMap
    /\ paramsSeen' = {}
    /\ patternsSeen' = {}
    /\ contentPrefixes' = contentPrefixes
    /\ op' = "Reset"
    /\ arg' = ""
    /\ ret' = FALSE
    /\ kept' = {}
    /\ dropped' = {}
    /\ results' = EmptyBag
    /\ twin' = twinReset(twin)
    /\ prev' = Snapshot
    /\ calls' = calls + 1
    /\ UNCHANGED <<config, pool>>

Reset ==
    /\ calls < MaxCalls
    /\ urlMap' = EmptyMap
    /\ paramsSeen' = {}
    /\ patternsSeen' = {}
    /\ contentPrefixes' = <<>>
    /\ op' = "Reset"
    /\ arg' = ""
    /\ ret' = FALSE
    /\ kept' = {}
    /\ dropped' = {}
    /\ results' = EmptyBag
    /\ twin' = twinReset(twin)
    /\ prev' = Snapshot
    /\ calls' = calls + 1
    /\ UNCHANGED <<config, pool>>

\* mapToQuery that writes a parameter with an empty value as its bare name.
mapToQueryBare(params, order) ==
    IF DOMAIN params = {} THEN ""
    ELSE "?" \o Join([i \in 1..Len(order) |->
                         IF params[order[i]] = "" THEN order[i]
                         ELSE order[i] \o "=" \o params[order[i]]], "&")

\* mapToQuery, when ranging over params yields its names in the order `order`.
mapToQuery(params, order) ==
    IF DOMAIN params = {} THEN ""
    ELSE "?" \o Join([i \in 1..Len(order) |-> order[i] \o "=" \o params[order[i]]], "&")

\* The places of the loops of Results: <<host, path, i>> for the i-th ParamSet
\* of a path, <<host, path, 0>> for a path without ParamSets.
resultSlots(m) ==
    UNION {{<<e[1], e[2], i>> : i \in IF Len(m[e[1]][e[2]]) = 0 THEN {0}
                                      ELSE 1..Len(m[e[1]][e[2]])} :
            e \in StoredPaths(m)}

\* The strings Results can append at a place.
resultStrings(m, slot) ==
    IF slot[3] = 0 THEN {slot[1] \o slot[2]}
    ELSE {slot[1] \o slot[2] \o mapToQuery(m[slot[1]][slot[2]][slot[3]], o) :
            o \in Orders(DOMAIN m[slot[1]][slot[2]][slot[3]])}

\* The lists Results can return for the places S, without their order.
RECURSIVE resultsOver(_, _)
resultsOver(m, S) ==
    IF S = {} THEN {EmptyBag}
    ELSE LET slot == CHOOSE x \in S : TRUE
         IN  {b (+) SetToBag({str}) :
                b \in resultsOver(m, S \ {slot}), str \in resultStrings(m, slot)}

\* Results (and WriteResults, which writes the same strings as lines).
Results ==
    /\ results' \in resultsOver(urlMap, resultSlots(urlMap))
    /\ op' = "Results"
    /\ arg' = ""
    /\ ret' = FALSE
    /\ prev' = Snapshot
    /\ UNCHANGED <<urlMap, paramsSeen, patternsSeen, contentPrefixes, kept, dropped,
                   calls, config, pool, twin>>

Next ==
    \/ \E rawURL \in input : Process(rawURL)
    \/ Reset
    \/ Results

Spec == Init /\ [][Next]_vars

(***************************************************************************)
(* Parallel mode.  The worker pool is not part of uro.go as given; it is   *)
(* modelled from the specification's section on operating modes: a worker  *)
(* takes a line, and the decision on the line and the mutation of the four *)
(* structures happen inside one mutex-guarded critical section.            *)
(***************************************************************************)

\* The options and workloads of the parallel runs.
ParOptions == {Toggles(<<>>), Toggles(<<"keepcontent">>)}

ParWorkloads ==
    {{"http://h/p", "http://h/p?a=1", "http://h/p?a=2", "http://h/p?b=3"},
     {"http://h/a/1", "http://h/a/2", "http://g/a/1", "http://h/a/2?b=1"},
     {"http://h/blog", "http://h/blog/y", "http://g/blogs?a=1", "http://h/x.css"}}

InitPar == InitWith(ParOptions, ParWorkloads)

\* The lines taken by workers and not committed yet.
InFlight == Cardinality({w \in Pool : pending[w].pc # "idle"})

\* Worker w takes the line rawURL of its share of the input.
Submit(w, rawURL) ==
    /\ pending[w].pc = "idle"
    /\ calls + InFlight < MaxCalls
    /\ pending' = [pending EXCEPT ![w] = [@ EXCEPT !.pc = "ready", !.line = rawURL]]
    /\ UNCHANGED <<urlMap, paramsSeen, patternsSeen, contentPrefixes, config, op, arg,
                   ret, kept, prev, calls, mutex, by, sink, dropped, results, twin>>

\* Worker w, inside the critical section, reads the structures and decides.
Decide(w, out) ==
    /\ pending' = [pending EXCEPT ![w] = [@ EXCEPT !.pc = "inside", !.out = out,
                                                   !.basis = Snapshot]]
    /\ UNCHANGED <<urlMap, paramsSeen, patternsSeen, contentPrefixes, config, op, arg,
                   ret, kept, prev, calls, by, sink, dropped, results, twin>>

\* Enter without the mutex: a worker starts deciding while another is inside.
EnterUnguarded(w) ==
    /\ pending[w].pc = "ready"
    /\ mutex' = w
    /\ Decide(w, ProcessOutcome(pending[w].line))

\* Worker w acquires the mutex and decides on its line.
Enter(w) ==
    /\ pending[w].pc = "ready"
    /\ mutex = ""
    /\ mutex' = w
    /\ Decide(w, ProcessOutcome(pending[w].line))

\* Leave that passes every line to the callback, kept or dropped.
LeaveEmitAlways(w) ==
    /\ pending[w].pc = "inside"
    /\ Returns(pending[w].line, pending[w].out)
    /\ sink' = Append(sink, pending[w].line)
    /\ pending' = [pending EXCEPT ![w] = [@ EXCEPT !.pc = "idle"]]
    /\ mutex' = ""
    /\ by' = w

\* Worker w writes its decision to the structures, passes the URL to the
\* streaming callback if it is accepted, and releases the mutex.
Leave(w) ==
    /\ pending[w].pc = "inside"
    /\ Returns(pending[w].line, pending[w].out)
    /\ sink' = IF pending[w].out.ret THEN Append(sink, pending[w].line) ELSE sink
    /\ pending' = [pending EXCEPT ![w] = [@ EXCEPT !.pc = "idle"]]
    /\ mutex' = ""
    /\ by' = w

NextPar ==
    \E w \in Pool :
        \/ \E rawURL \in input : Submit(w, rawURL)
        \/ Enter(w)
        \/ Leave(w)

SpecPar == InitPar /\ [][NextPar]_vars

(***************************************************************************)
(* The processor next to one with the single novelty test                  *)
(***************************************************************************)

SingleOptions ==
    {Toggles(fs) : fs \in {<<>>, <<"hasparams">>, <<"vuln">>, <<"keepcontent">>}}

InitSingle == InitTwin(SingleOptions, Workloads, "single")

SpecSingle == InitSingle /\ [][Next]_vars

(***************************************************************************)
(* The processor with alias spellings next to one with canonical names     *)
(***************************************************************************)

AliasOptions ==
    {Toggles(fs) : fs \in {<<"hasparam">>, <<"noparam">>, <<"hasexts">>, <<"noexts">>}}
    \cup {[Whitelist |-> <<"php", "html">>, Blacklist |-> <<>>, Filters |-> fs,
           KeepSlash |-> FALSE] : fs \in {<<"hasexts">>, <<"noexts">>}}

InitAlias == InitTwin(AliasOptions, Workloads, "canonical")

SpecAlias == InitAlias /\ [][Next]_vars

(***************************************************************************)
(* The processor with default filters listed next to one without them      *)
(***************************************************************************)

ExplicitOptions ==
    {Toggles(fs) : fs \in {<<"removecontent">>, <<"blacklist">>, <<"whitelist">>,
                           <<"removecontent", "hasparams">>}}
    \cup {[Whitelist |-> <<"php", "html">>, Blacklist |-> <<>>, Filters |-> fs,
           KeepSlash |-> FALSE] : fs \in {<<"whitelist">>, <<"blacklist">>}}

InitExplicit == InitTwin(ExplicitOptions, Workloads, "default")

SpecExplicit == InitExplicit /\ [][Next]_vars

(***************************************************************************)
(* The processor next to a URLProcessor                                    *)
(***************************************************************************)

\* The options a URLProcessor is constructed from without an error.
InternalOptions == {o \in OptionsSet : ~invalidFilter(cleanArgs(o.Filters))}

InitInternal == InitTwin(InternalOptions, Workloads, "internal")

\* A URLProcessor has ProcessLine and Output, and no Reset.
NextInternal ==
    \/ \E rawURL \in input : Process(rawURL)
    \/ Results

SpecInternal == InitInternal /\ [][NextInternal]_vars

\* A whitelist with the no-extension filter, alone and next to other names.
StrictOptions ==
    {[Whitelist |-> <<"php", "html">>, Blacklist |-> <<>>, Filters |-> fs,
      KeepSlash |-> FALSE] :
        fs \in {<<"noext">>, <<"noext", "allexts">>, <<"noext", "hasparams">>,
                <<"noext", "keepcontent">>}}

InitStrict == InitTwin(StrictOptions, Workloads, "internal")

SpecStrict == InitStrict /\ [][NextInternal]_vars

(***************************************************************************)
(* Properties                                                              *)
(***************************************************************************)

\* The last call was Process and it reached processURL with a parsed URL.
Processed == op = "Process" /\ urlOf[keepSlash][arg].ok

\* The host, path and ParamSet of the line of the last Process call.
argHost == urlOf[keepSlash][arg].host

argPath == urlOf[keepSlash][arg].path

argParams == urlOf[keepSlash][arg].params

\* The filter chain, as it stood before the last call, keeps the line.
PassedFilters == applyFiltersFrom(Self, filters, argPath, argParams, prev.contentPrefixes).keep

\* m has a PathEntry for (host, path).
HasEntry(m, host, path) == host \in DOMAIN m /\ path \in DOMAIN m[host]

\* The ParamSets stored in m for (host, path).
Entry(m, host, path) == IF HasEntry(m, host, path) THEN m[host][path] ELSE <<>>

\* Some '/'-separated segment of the path is purely numeric.
hasNumericSegment(path) ==
    \E i \in 1..Len(Split(path, "/")) : isDigit(Split(path, "/")[i])

numericPaths == {q \in Paths : hasNumericSegment(q)}

\* The segments of a path up to and including its last numeric one.
numericStem(path) ==
    LET parts == Split(path, "/")
    IN  SubSeq(parts, 1, SetMax({i \in 1..Len(parts) : isDigit(parts[i])}))

\* Two paths generalize to one pattern: their stems have the same length,
\* numeric segments in the same places and the same text everywhere else.
sameShape(p, q) ==
    /\ Len(numericStem(p)) = Len(numericStem(q))
    /\ \A i \in 1..Len(numericStem(p)) :
          IF isDigit(numericStem(p)[i]) THEN isDigit(numericStem(q)[i])
          ELSE numericStem(p)[i] = numericStem(q)[i]

sameShapePaths == {pq \in numericPaths \X numericPaths : sameShape(pq[1], pq[2])}

\* C1: once Process(u) has returned true, every later Process(u) before the
\* next Reset returns false and leaves Count() as it was.
C1_KeptOnce ==
    (op = "Process" /\ arg \in prev.kept)
        => (ret = FALSE /\ CountOf(urlMap) = CountOf(prev.urlMap))

C1_Witness ==
    op = "Process" /\ arg \in prev.kept /\ ret = FALSE /\ CountOf(urlMap) > 0

\* C2: for a URL that passes the filters and whose (host, path) is already
\* stored, the ParamSet is appended and the URL kept if and only if it has a
\* name absent from SeenParamNames or a name absent from the names stored for
\* that path; otherwise the URL is dropped and the PathEntry is unchanged.
\* On a fresh processor http://h/p?a=1 is kept, then http://h/p?a=2 is dropped,
\* then http://h/p?a=1&b=2 is kept.
C2_Novel ==
    \/ \E n \in DOMAIN argParams : n \notin prev.paramsSeen
    \/ \E n \in DOMAIN argParams :
          n \notin storedNames(Entry(prev.urlMap, argHost, argPath))

C2_ExistingPath ==
    /\ (Processed /\ PassedFilters /\ HasEntry(prev.urlMap, argHost, argPath))
          => /\ ret = C2_Novel
             /\ Entry(urlMap, argHost, argPath) =
                   IF C2_Novel
                   THEN Append(Entry(prev.urlMap, argHost, argPath), argParams)
                   ELSE Entry(prev.urlMap, argHost, argPath)
    /\ (calls = 1 /\ op = "Process" /\ arg = "http://h/p?a=1" /\ PassedFilters)
          => ret = TRUE
    /\ (calls = 2 /\ op = "Process" /\ arg = "http://h/p?a=2"
          /\ prev.kept = {"http://h/p?a=1"}) => ret = FALSE
    /\ (calls = 3 /\ op = "Process" /\ arg = "http://h/p?a=1&b=2"
          /\ prev.kept = {"http://h/p?a=1"} /\ prev.paramsSeen = {"a"}) => ret = TRUE

C2_Witness ==
    /\ calls = 3 /\ op = "Process" /\ arg = "http://h/p?a=1&b=2" /\ ret = TRUE
    /\ prev.kept = {"http://h/p?a=1"} /\ prev.paramsSeen = {"a"}
    /\ Len(Entry(urlMap, "http://h", "/p")) = 2

\* C3: a URL that passes the filters, whose path is new for its host, has a
\* purely numeric segment and a generalized pattern already in SeenPatterns is
\* dropped and no PathEntry is created for it; http://h/a/1 is kept and then
\* http://h/a/2 is dropped, http://h/a/1/2 is kept and then http://h/a/1/3 is
\* dropped.
C3_PatternDrop ==
    /\ (Processed /\ PassedFilters /\ ~HasEntry(prev.urlMap, argHost, argPath)
          /\ hasNumericSegment(argPath) /\ createPattern(argPath) \in prev.patternsSeen)
          => (ret = FALSE /\ ~HasEntry(urlMap, argHost, argPath))
    /\ (calls = 1 /\ op = "Process" /\ arg \in {"http://h/a/1", "http://h/a/1/2"}
          /\ PassedFilters) => ret = TRUE
    /\ (op = "Process" /\ arg = "http://h/a/2" /\ "http://h/a/1" \in prev.kept)
          => ret = FALSE
    /\ (op = "Process" /\ arg = "http://h/a/1/3" /\ "http://h/a/1/2" \in prev.kept)
          => ret = FALSE

C3_Witness ==
    /\ op = "Process" /\ arg = "http://h/a/1/3" /\ ret = FALSE
    /\ prev.kept = {"http://h/a/1", "http://h/a/1/2"}
    /\ PassedFilters
    /\ ~HasEntry(urlMap, "http://h", "/a/1/3")

\* C4: numeric patterns are global: across all hosts, no two stored paths
\* with a numeric segment have the same generalized pattern; after
\* http://h/a/1 is kept, http://g/a/2 and http://g/a/1 are dropped.
C4_GlobalPatterns ==
    /\ \A e1, e2 \in StoredPaths(urlMap) :
          e1 # e2 => <<e1[2], e2[2]>> \notin sameShapePaths
    /\ (op = "Process" /\ arg \in {"http://g/a/2", "http://g/a/1"}
          /\ "http://h/a/1" \in prev.kept) => ret = FALSE

C4_Witness ==
    /\ op = "Process" /\ arg = "http://g/a/1" /\ ret = FALSE /\ PassedFilters
    /\ "http://h/a/1" \in prev.kept
    /\ StoredPaths(urlMap) = {<<"http://h", "/a/1">>}

\* The four structures are as they were before the last call.
StoreUnchanged ==
    /\ urlMap = prev.urlMap
    /\ paramsSeen = prev.paramsSeen
    /\ patternsSeen = prev.patternsSeen
    /\ contentPrefixes = prev.contentPrefixes

\* C5: a Process call that returns false leaves DedupStore, SeenParamNames,
\* SeenPatterns and ContentPrefixCache exactly as they were.
C5_AllOrNothing == (op = "Process" /\ ret = FALSE) => StoreUnchanged

\* The settings of the processor are those setupFilters computes from opts.
ConfigOfOpts ==
    \E order \in Orders(cleanArgs(opts.Filters)) :
        setupFilters(opts, order) =
            [keepSlash |-> keepSlash, filters |-> filters, extList |-> extList,
             strict |-> strict]

\* C6: Reset empties the four structures in one step, so that the processor
\* is in the state of a freshly constructed one with the same options and
\* Count() is 0; Process empties none of them.
C6_Reset ==
    /\ op = "Reset" => (Snapshot = Fresh /\ CountOf(urlMap) = 0 /\ ConfigOfOpts)
    /\ op = "Process" =>
          /\ prev.urlMap # EmptyMap => urlMap # EmptyMap
          /\ prev.paramsSeen # {} => paramsSeen # {}
          /\ prev.patternsSeen # {} => patternsSeen # {}
          /\ prev.contentPrefixes # <<>> => contentPrefixes # <<>>

C6_Witness ==
    /\ op = "Reset"
    /\ StoredPaths(prev.urlMap) # {} /\ prev.paramsSeen # {}
    /\ prev.patternsSeen # {} /\ prev.contentPrefixes # <<>>
    /\ Snapshot = Fresh

\* The filter names of the options o that are neither settings nor filters.
UnknownNames(o) ==
    {f \in cleanArgs(o.Filters) \ SpecialFilters : ~isValidFilter(normalizeFilterName(f))}

\* C7: under options that name an unrecognized filter no processor is
\* returned, so no line is ever processed.
C7_FailFast == UnknownNames(opts) # {} => op = "New"

\* C8: with the content filter active, a URL whose path matches a content
\* pattern is rejected and the prefix up to the end of the match is in
\* ContentPrefixCache.
C8_ContentRejected ==
    (Processed /\ "removecontent" \in {filters[i] : i \in 1..Len(filters)}
        /\ reContentEnd(argPath) # 0)
        => /\ ret = FALSE
           /\ contentPrefix(argPath) \in {contentPrefixes[i] : i \in 1..Len(contentPrefixes)}

\* The line is empty after canonicalization, does not parse, or has no host.
Malformed(rawURL, keep) ==
    \/ Canonical(rawURL, keep) = ""
    \/ Parse(Canonical(rawURL, keep)).err
    \/ Parse(Canonical(rawURL, keep)).Host = ""

malformedLines == [keep \in BOOLEAN |-> {l \in Lines : Malformed(l, keep)}]

\* C9: a line that is empty after canonicalization, does not parse or has an
\* empty authority is dropped: Process returns false and the four structures
\* are unchanged.
C9_MalformedDropped ==
    (op = "Process" /\ arg \in malformedLines[keepSlash])
        => (ret = FALSE /\ StoreUnchanged)

C9_Witness ==
    /\ op = "Process" /\ arg = "/a/b" /\ ret = FALSE
    /\ StoredPaths(urlMap) # {} /\ StoreUnchanged

\* C10: for every stored (host, path) no two ParamSets have the same set of
\* names, and each ParamSet after the first has a name that no ParamSet
\* stored before it for that path has.
C10_DistinctNames ==
    \A e \in StoredPaths(urlMap) :
        LET list == urlMap[e[1]][e[2]]
        IN  \A j \in 1..Len(list) :
               /\ \A i \in 1..(j - 1) : DOMAIN list[i] # DOMAIN list[j]
               /\ j > 1 => \E n \in DOMAIN list[j] :
                              n \notin storedNames(SubSeq(list, 1, j - 1))

C10_Witness ==
    /\ Processed /\ ret = TRUE
    /\ Len(Entry(urlMap, argHost, argPath)) = 2
    /\ DOMAIN argParams \subseteq prev.paramsSeen

\* The elements of a sequence.
Range(s) == {s[i] : i \in 1..Len(s)}

\* s is t with zero or more elements appended.
Extends(s, t) == Len(s) >= Len(t) /\ SubSeq(s, 1, Len(t)) = t

\* C11: every Process step leaves SeenParamNames and SeenPatterns as
\* supersets of their previous values and ContentPrefixCache as its previous
\* value with elements appended; no Process step removes an element.
C11_OnlyGrow ==
    op = "Process"
        => /\ prev.paramsSeen \subseteq paramsSeen
           /\ prev.patternsSeen \subseteq patternsSeen
           /\ Extends(contentPrefixes, prev.contentPrefixes)

C11_Witness ==
    /\ op = "Process"
    /\ prev.paramsSeen # {}
    /\ prev.contentPrefixes # <<>>
    /\ Len(contentPrefixes) > Len(prev.contentPrefixes)
    /\ patternsSeen # prev.patternsSeen

\* The names that occur in the ParamSets stored in m.
namesIn(m) == UNION {storedNames(m[e[1]][e[2]]) : e \in StoredPaths(m)}

\* C12: every name in SeenParamNames occurs in at least one ParamSet stored
\* in DedupStore: the names of a dropped URL are never recorded.
C12_SeenAccepted == paramsSeen \subseteq namesIn(urlMap)

\* The names requested in the options, cleaned.
requested == cleanArgs(opts.Filters)

\* Neither list is configured and all-extensions is not requested.
defaultExtensions ==
    opts.Whitelist = <<>> /\ opts.Blacklist = <<>> /\ "allexts" \notin requested

\* The paths of the workloads whose last segment ends, in any letter case, in
\* '.' and an extension of the built-in list.
staticAssetPaths ==
    {q \in Paths : \E e \in defaultBlacklist : HasSuffix(ToLower(q), "." \o e)}

\* C13: with no whitelist, no blacklist and all-extensions not requested, a
\* URL whose last segment has an extension of the built-in static-asset list
\* (in any letter case) is dropped and never stored; with all-extensions
\* requested no extension filter runs and, on a fresh processor, a URL that
\* the hyphen rule does not reject is kept whatever its extension
\* (http://h/x.css is dropped by default and kept under all-extensions).
C13_DefaultBlacklist ==
    /\ defaultExtensions
          => /\ \A e \in StoredPaths(urlMap) : e[2] \notin staticAssetPaths
             /\ (Processed /\ argPath \in staticAssetPaths) => ret = FALSE
    /\ "allexts" \in requested
          => /\ "blacklist" \notin Range(filters) /\ "whitelist" \notin Range(filters)
             /\ (Processed /\ calls = 1 /\ ~hyphensOf[argPath]) => ret = TRUE
    /\ (calls = 1 /\ op = "Process" /\ arg = "http://h/x.css"
            /\ opts \in {Toggles(<<>>), Toggles(<<"allexts">>)})
          => ret = ("allexts" \in requested)

C13_Witness ==
    /\ defaultExtensions
    /\ op = "Process"
    /\ arg = "http://h/X.CSS"
    /\ ret = FALSE
    /\ urlMap # EmptyMap
    /\ urlMap = prev.urlMap

\* The settings setupFilters gives the options o, as one tuple.
settingsOf(o, order) ==
    <<setupFilters(o, order).extList, setupFilters(o, order).filters,
      setupFilters(o, order).strict, setupFilters(o, order).keepSlash>>

\* The last segment of q ends, in any letter case, in '.' and a member of exts.
extensionIn(q, exts) == \E e \in exts : HasSuffix(ToLower(q), "." \o e)

\* The last '/'-separated segment of a path.
lastSegment(q) == Split(q, "/")[Len(Split(q, "/"))]

\* The paths of the workloads that have an extension: some text follows the
\* last '.' of the last segment.
extensionPaths == {q \in Paths : Contains(lastSegment(q), ".") /\ ~HasSuffix(q, ".")}

\* C14: with a whitelist and a blacklist both configured only the whitelist
\* logic applies: the processor's settings, which with the stored state decide
\* every result, are those of the same options with an empty blacklist; a kept
\* URL has no extension or a whitelisted one, and a URL whose extension is on
\* both lists is kept.
C14_WhitelistOnly ==
    (opts.Whitelist # <<>> /\ opts.Blacklist # <<>> /\ "allexts" \notin requested)
        => /\ \E order \in Orders(requested) :
                 <<extList, filters, strict, keepSlash>> =
                     settingsOf([opts EXCEPT !.Blacklist = <<>>], order)
           /\ extList = cleanArgs(opts.Whitelist)
           /\ "whitelist" \in Range(filters) /\ "blacklist" \notin Range(filters)
           /\ (Processed /\ ret /\ argPath \in extensionPaths)
                 => extensionIn(argPath, cleanArgs(opts.Whitelist))
           /\ (Processed /\ calls = 1 /\ requested = {} /\ arg = "http://h/index.php")
                 => ret = TRUE

C14_Witness ==
    /\ opts.Whitelist # <<>>
    /\ opts.Blacklist # <<>>
    /\ op = "Process"
    /\ arg = "http://h/index.php"
    /\ extensionIn(argPath, cleanArgs(opts.Blacklist))
    /\ ret = TRUE
    /\ "http://h/api/users" \in prev.kept

\* The filter chain without the filter `name`, as it stood before the last
\* call, keeps the line.
PassedWithout(name) ==
    applyFiltersFrom(Self, SelectSeq(filters, LAMBDA f : f # name), argPath, argParams,
                     prev.contentPrefixes).keep

\* What the claim says the whitelist filter does with the path q.
whitelistKeeps(q) ==
    \/ q \in extensionPaths /\ extensionIn(q, cleanArgs(opts.Whitelist))
    \/ ~strict /\ q \notin extensionPaths

\* C15: the whitelist filter keeps a path if and only if the extension of its
\* last segment is in the allowed set, or strict mode is off and the last
\* segment has no extension: a kept URL satisfies this, and on a fresh
\* processor a URL is kept exactly when it does and the other filters keep it.
\* With whitelist {php, html} and no strict mode, /index.php, /about.html and
\* /api/users are kept and /style.css is dropped.
C15_Whitelist ==
    "whitelist" \in Range(filters)
        => /\ (Processed /\ ret) => whitelistKeeps(argPath)
           /\ (Processed /\ calls = 1)
                 => ret = (whitelistKeeps(argPath) /\ PassedWithout("whitelist"))
           /\ (op = "Process" /\ calls = 1 /\ requested = {}
                 /\ opts.Whitelist = <<"php", "html">>)
                 => /\ arg \in {"http://h/index.php", "http://h/about.html",
                                "http://h/api/users"} => ret = TRUE
                    /\ arg = "http://h/style.css" => ret = FALSE

C15_Witness ==
    /\ opts.Whitelist = <<"php", "html">>
    /\ ~strict
    /\ op = "Process"
    /\ arg = "http://h/style.css"
    /\ ret = FALSE
    /\ prev.kept = {"http://h/index.php", "http://h/api/users"}

\* An extension filter is active.
extensionFilter == "whitelist" \in Range(filters) \/ "blacklist" \in Range(filters)

\* C16: requesting has-extension or no-extension switches the extension
\* filter into strict mode, and in strict mode the extension filter, in
\* whitelist mode and in blacklist mode alike, no longer passes a path whose
\* last segment has no extension.
C16_Strict ==
    /\ ("hasext" \in requested \/ "noext" \in requested) => strict
    /\ (strict /\ extensionFilter /\ Processed /\ ret) => argPath \in extensionPaths

\* C16 as amended: strict mode is on exactly when hasext or noext is requested
\* under that name; in strict mode the whitelist filter keeps no path without
\* an extension, while the blacklist filter passes every such path, as it does
\* without strict mode (under no-extension http://h/api/users is kept).
C16_StrictWhitelist ==
    /\ strict = ("hasext" \in requested \/ "noext" \in requested)
    /\ (strict /\ "whitelist" \in Range(filters) /\ Processed /\ ret)
          => argPath \in extensionPaths
    /\ ("blacklist" \in Range(filters) /\ Processed /\ calls = 1
            /\ argPath \notin extensionPaths)
          => ret = PassedWithout("blacklist")
    /\ (opts = Toggles(<<"noext">>) /\ op = "Process" /\ calls = 1
            /\ arg = "http://h/api/users")
          => ret = TRUE

C16_Witness ==
    /\ strict
    /\ "blacklist" \in Range(filters)
    /\ op = "Process"
    /\ arg = "http://h/api/users"
    /\ argPath \notin extensionPaths
    /\ ret = TRUE

\* C17: with the vulnerable-parameter filter active, every stored path holds
\* at least one ParamSet and every stored ParamSet has a name of the curated
\* list, matched exactly: http://h/p?id=5 is kept, http://h/p?foo=5,
\* http://h/p?ID=5 and a URL without parameters are dropped.
C17_VulnOnly ==
    "vuln" \in Range(filters)
        => /\ \A e \in StoredPaths(urlMap) :
                 /\ Len(urlMap[e[1]][e[2]]) >= 1
                 /\ \A i \in 1..Len(urlMap[e[1]][e[2]]) :
                       DOMAIN urlMap[e[1]][e[2]][i] \cap vulnParams # {}
           /\ (op = "Process" /\ calls = 1 /\ arg = "http://h/p?id=5") => ret = TRUE
           /\ (op = "Process"
                 /\ arg \in {"http://h/p?foo=5", "http://h/p?ID=5", "http://h/p"})
                 => ret = FALSE

C17_Witness ==
    /\ "vuln" \in Range(filters)
    /\ op = "Process"
    /\ arg = "http://h/p?foo=5"
    /\ ret = FALSE
    /\ kept = {"http://h/p?id=5", "http://h/q?foo=1&cmd=x"}
    /\ CountOf(urlMap) = 2

\* The largest number of hyphens in one '/'-separated segment of q.
mostHyphens(q) == SetMax({Count(Split(q, "/")[i], "-") : i \in 1..Len(Split(q, "/"))})

\* The paths of the workloads by that number.
hyphenated == [n \in 0..5 |-> {q \in Paths : mostHyphens(q) = n}]

\* C18: with the content filter active, a URL with a path segment of more
\* than 3 hyphens is dropped, whether or not the path matches a content
\* pattern, and ContentPrefixCache is left unchanged; a segment with exactly
\* 3 hyphens is not rejected by this rule (on a fresh processor such a URL is
\* kept when the other filters keep it).
C18_Hyphens ==
    "removecontent" \in Range(filters)
        => /\ (Processed /\ argPath \in hyphenated[4] \cup hyphenated[5])
                 => /\ ret = FALSE
                    /\ contentPrefixes = prev.contentPrefixes
                    /\ urlMap = prev.urlMap
           /\ (Processed /\ calls = 1 /\ argPath \in hyphenated[3])
                 => ret = PassedWithout("removecontent")
           /\ (op = "Process" /\ calls = 1 /\ opts = Toggles(<<>>))
                 => /\ arg = "http://h/blog/a-b-c-d-e" => ret = FALSE
                    /\ arg = "http://h/a-b-c-d" => ret = TRUE

C18_Witness ==
    /\ "removecontent" \in Range(filters)
    /\ op = "Process"
    /\ arg = "http://h/blog/a-b-c-d-e"
    /\ ret = FALSE
    /\ contentPrefixes = <<>>
    /\ "http://h/a-b-c-d" \in kept

\* The pairs <<l, l/>> of lines of the workloads without a query that are
\* URLs with a host.
SlashPairs ==
    {pr \in {<<l, l \o "/">> : l \in Lines} :
        /\ pr[2] \in Lines
        /\ ~Contains(pr[1], "?")
        /\ urlOf[TRUE][pr[1]].ok /\ urlOf[TRUE][pr[2]].ok}

\* The last call processed one line of the pair pr and the other line of the
\* pair had been kept before, the line itself not.
SecondOf(pr) ==
    /\ Processed
    /\ \/ arg = pr[1] /\ pr[2] \in prev.kept
       \/ arg = pr[2] /\ pr[1] \in prev.kept
    /\ arg \notin prev.kept

\* C19: without keep-slash a line ending in '/' is processed exactly like the
\* same line without that slash, so that after one form is kept the other is
\* dropped; with keep-slash P/ and P are distinct stored paths and both forms
\* are kept.
C19_TrailingSlash ==
    \A pr \in SlashPairs :
        /\ ~keepSlash => (SecondOf(pr) => ret = FALSE)
        /\ keepSlash => (SecondOf(pr) => ret = TRUE)

\* C19 as amended: without keep-slash a line ending in a single '/' is
\* processed exactly like the same line without it (http://h/a/ is stored as
\* http://h/a and dropped after it); with keep-slash P/ and P are distinct
\* paths of the store, and a URL of either form whose path is not stored yet
\* is kept although the other form is stored, unless a filter or the Pattern
\* Generalizer rejects it.
C19_SingleSlash ==
    \A pr \in SlashPairs :
        /\ (~keepSlash /\ ~HasSuffix(pr[1], "/"))
              => /\ (Processed /\ arg \in {pr[1], pr[2]})
                       => /\ argHost \o argPath = pr[1]
                          /\ ret => HasEntry(urlMap, argHost, argPath)
                 /\ SecondOf(pr) => ret = FALSE
        /\ keepSlash
              => /\ urlOf[TRUE][pr[2]].path = urlOf[TRUE][pr[1]].path \o "/"
                 /\ (SecondOf(pr) /\ PassedFilters /\ argPath \notin numericPaths
                        /\ ~HasEntry(prev.urlMap, argHost, argPath))
                       => /\ ret = TRUE
                          /\ HasEntry(urlMap, argHost, urlOf[TRUE][pr[1]].path)
                          /\ HasEntry(urlMap, argHost, urlOf[TRUE][pr[2]].path)

C19_Witness ==
    /\ keepSlash
    /\ op = "Process"
    /\ arg = "http://h/a/"
    /\ "http://h/a" \in prev.kept
    /\ ret = TRUE
    /\ HasEntry(urlMap, "http://h", "/a")
    /\ HasEntry(urlMap, "http://h", "/a/")

\* C20: in parallel mode each line's decision and its mutation of the four
\* structures form one step that no other line's interleaves with: a worker's
\* decision is written to the very structures it was made from, so the run
\* equals the sequential run of the lines in the order of their commits, and
\* two workers submitting the same URL produce one kept occurrence.
C20_Atomic ==
    (op = "Process" /\ by # "")
        => /\ pending[by].pc # "inside" => pending[by].basis = prev
           /\ arg \in prev.kept => ret = FALSE
           /\ \A w \in Pool : pending[w].pc = "inside" => mutex = w

C20_Witness ==
    /\ op = "Process"
    /\ by = "w2"
    /\ pending["w2"].pc = "idle"
    /\ pending["w1"].line = arg
    /\ pending["w1"].basis # pending["w2"].basis
    /\ arg \in prev.kept
    /\ ret = FALSE
    /\ CountOf(urlMap) = 1

\* C21: in streaming mode every accepted URL is passed to the callback
\* exactly once, at the moment it is accepted: after a commit that accepts,
\* the URL is the last the callback has seen, so the callback sees the URLs in
\* commit order; a dropped URL is never passed, and a commit that drops
\* leaves the callback's sequence as it was.
C21_Streaming ==
    by # ""
        => /\ Range(sink) = kept
           /\ Len(sink) = Cardinality(kept)
           /\ (op = "Process" /\ ret)
                 => /\ sink[Len(sink)] = arg
                    /\ Range(SubSeq(sink, 1, Len(sink) - 1)) = prev.kept
           /\ (op = "Process" /\ ~ret) => Range(sink) = prev.kept

C21_Witness ==
    /\ by # ""
    /\ Len(sink) = 2
    /\ op = "Process"
    /\ ~ret
    /\ arg \notin Range(sink)
    /\ pending["w1"].line = sink[2]
    /\ pending["w2"].line = arg

\* The texts 'name=value' of a ParamSet joined by '&', in any order of names.
queryTexts(ps) ==
    {Join([i \in 1..Len(o) |-> o[i] \o "=" \o ps[o[i]]], "&") : o \in Orders(DOMAIN ps)}

\* C22: what Results (and WriteResults) returns has one string per stored
\* ParamSet, host + path + '?' + its name=value pairs joined by '&', and one
\* string host + path per stored path without a ParamSet, and nothing else; a
\* parameter with an empty value, such as the bare name of http://h/p?a, is
\* written as 'name='.
C22_Output ==
    op = "Results"
        => /\ BagCardinality(results) = CountOf(urlMap)
           /\ \A e \in StoredPaths(urlMap) :
                /\ urlMap[e[1]][e[2]] = <<>> => CopiesIn(e[1] \o e[2], results) = 1
                /\ \A i \in 1..Len(urlMap[e[1]][e[2]]) :
                     \E q \in queryTexts(urlMap[e[1]][e[2]][i]) :
                        CopiesIn(e[1] \o e[2] \o "?" \o q, results) = 1
           /\ "http://h/p?a" \in kept => BagIn("http://h/p?a=", results)

C22_Witness ==
    /\ op = "Results"
    /\ "http://h/p?a" \in kept
    /\ BagIn("http://h/p?a=", results)
    /\ BagIn("http://h/q?b=1", results)
    /\ BagCardinality(results) = 2

\* The text of a line after its first '?'.
rawQueryOf(line) == IF Contains(line, "?") THEN From(line, Index(line, "?") + 1) ELSE ""

\* The name and the value of one segment of a query, split on its first '='.
segName(seg) == IF Contains(seg, "=") THEN Upto(seg, Index(seg, "=") - 1) ELSE seg

segValue(seg) == IF Contains(seg, "=") THEN From(seg, Index(seg, "=") + 1) ELSE ""

\* What the claim says a query decodes to: each non-empty name mapped to the
\* value of its last segment.
decoded(query) ==
    LET segs  == Split(query, "&")
        names == {segName(segs[i]) : i \in 1..Len(segs)} \ {""}
    IN  [n \in names |->
            segValue(segs[SetMax({i \in 1..Len(segs) : segName(segs[i]) = n})])]

decodedOf == [l \in Lines |-> decoded(rawQueryOf(l))]

\* C23: the ParamSet of a processed line is its query split on '&' and each
\* segment on its first '=': a named segment maps its name to the text after
\* that '=', a bare name to the empty string, a segment with an empty name is
\* discarded, and of several segments with one name the last one counts; the
\* ParamSet stored for a new path is that one.
C23_Decoder ==
    Processed
        => /\ argParams = decodedOf[arg]
           /\ arg = "http://h/p?a=1&a=2" => argParams = [n \in {"a"} |-> "2"]
           /\ arg = "http://h/p?a=b=c" => argParams = [n \in {"a"} |-> "b=c"]
           /\ arg = "http://h/p?=x&b=1" => argParams = [n \in {"b"} |-> "1"]
           /\ arg = "http://h/p?a&&b=" => argParams = [n \in {"a", "b"} |-> ""]
           /\ arg = "http://h/p?=" => argParams = EmptyParams
           /\ arg = "http://h/q?c=1&c" => argParams = [n \in {"c"} |-> ""]
           /\ arg = "http://h/q?c&c=1" => argParams = [n \in {"c"} |-> "1"]
           /\ (ret /\ ~HasEntry(prev.urlMap, argHost, argPath) /\ argParams # EmptyParams)
                => Entry(urlMap, argHost, argPath) = <<decodedOf[arg]>>

C23_Witness ==
    /\ Processed
    /\ ret
    /\ arg = "http://h/p?a=1&a=2"
    /\ Entry(urlMap, "http://h", "/p") = <<[n \in {"a"} |-> "2"]>>
    /\ "http://h/q?c=1&c" \in kept

\* C24: after any sequence of Process calls on a fresh or just-reset
\* processor, Count() is the number of calls that returned true: a call that
\* returns true raises Count() by one, a call that returns false leaves it,
\* and Results() returns as many strings as lines were reported kept.
C24_CountKept ==
    /\ op = "Process" => CountOf(urlMap) = CountOf(prev.urlMap) + (IF ret THEN 1 ELSE 0)
    /\ op = "Reset" => CountOf(urlMap) = 0
    /\ op = "Results" => BagCardinality(results) = Cardinality(kept)

\* C25: a line for which Process returned false is dropped again by every
\* later Process of it until Reset, and a line for which it returned true is
\* not reported kept a second time: between two resets each line is reported
\* kept at most once.
C25_Permanent ==
    op = "Process"
        => /\ arg \in prev.dropped => ~ret
           /\ arg \in prev.kept => ~ret

C25_Witness ==
    /\ op = "Process"
    /\ ~ret
    /\ arg = "http://h/a/2?b=1"
    /\ arg \in prev.dropped
    /\ "b" \in paramsSeen
    /\ kept = {"http://h/a/1"}

\* C26: the Pattern Generalizer looks only at a path that is new for its
\* host.  A line that passes the filters and whose (host, path) is already
\* stored leaves SeenPatterns as it was and is kept when it brings a name not
\* stored for the path, although the pattern of its path is in SeenPatterns:
\* after http://h/a/1?x=1 is kept, http://h/a/1?y=2 is kept and
\* http://h/a/2?z=3 is dropped.
C26_NewPathsOnly ==
    Processed
        => /\ (PassedFilters /\ HasEntry(prev.urlMap, argHost, argPath))
                => /\ patternsSeen = prev.patternsSeen
                   /\ (DOMAIN argParams \ storedNames(Entry(prev.urlMap, argHost, argPath)) # {})
                         => ret
           /\ prev.kept = {"http://h/a/1?x=1"}
                => /\ pathOf["/a/1"].pattern \in prev.patternsSeen
                   /\ arg = "http://h/a/1?y=2" => ret
                   /\ arg = "http://h/a/2?z=3" => ~ret

C26_Witness ==
    /\ Processed
    /\ ret
    /\ arg = "http://h/a/1?y=2"
    /\ "http://h/a/1?x=1" \in prev.kept
    /\ "http://h/a/2?z=3" \in dropped
    /\ pathOf[argPath].numeric
    /\ pathOf[argPath].pattern \in prev.patternsSeen

\* C27: a line that passes the filters, whose path is new for its host and
\* whose path is not numeric with a pattern already in SeenPatterns, is kept,
\* whatever SeenParamNames holds and whatever is stored for other hosts, and
\* its path gets a PathEntry holding exactly its ParamSet if that is non-empty
\* and no ParamSet otherwise.
C27_NewPathKept ==
    (/\ Processed
     /\ PassedFilters
     /\ ~HasEntry(prev.urlMap, argHost, argPath)
     /\ ~(pathOf[argPath].numeric /\ pathOf[argPath].pattern \in prev.patternsSeen))
        => /\ ret
           /\ HasEntry(urlMap, argHost, argPath)
           /\ urlMap[argHost][argPath] =
                IF argParams = EmptyParams THEN <<>> ELSE <<argParams>>

C27_Witness ==
    /\ Processed
    /\ ret
    /\ arg = "http://g/p?id=5&foo=1"
    /\ DOMAIN argParams \subseteq prev.paramsSeen
    /\ Len(Entry(prev.urlMap, "http://h", "/p")) = 2
    /\ ~HasEntry(prev.urlMap, "http://g", "/p")
    /\ Entry(urlMap, "http://g", "/p") = <<argParams>>

\* C28: a prefix recorded in ContentPrefixCache stays there until Reset, and
\* every later line, on any host, whose path starts with it is dropped by the
\* content filter: the cache, SeenParamNames and the store are left as they
\* were.
C28_CachedPrefix ==
    op = "Process"
        => /\ Extends(contentPrefixes, prev.contentPrefixes)
           /\ (/\ urlOf[keepSlash][arg].ok
               /\ \E i \in 1..Len(prev.contentPrefixes) :
                    HasPrefix(argPath, prev.contentPrefixes[i]))
                => /\ ~ret
                   /\ contentPrefixes = prev.contentPrefixes
                   /\ paramsSeen = prev.paramsSeen
                   /\ urlMap = prev.urlMap

C28_Witness ==
    /\ Processed
    /\ ~ret
    /\ arg = "http://g/blogs?a=1"
    /\ "http://h/blog" \in prev.kept
    /\ "http://h/blog/y" \in prev.dropped
    /\ contentPrefixes = <<"/blog">>
    /\ paramsSeen = {}
    /\ DOMAIN urlMap = {"http://h"}

\* The filters built in: the content filter unless keep-content is requested,
\* then the extension filter unless all-extensions is requested.
builtIn ==
    (IF "keepcontent" \in requested THEN <<>> ELSE <<"removecontent">>)
    \o (IF "allexts" \in requested THEN <<>>
        ELSE IF opts.Whitelist # <<>> THEN <<"whitelist">> ELSE <<"blacklist">>)

\* The names the user requested that select a filter, in canonical spelling.
userFilters ==
    {normalizeFilterName(f) :
        f \in {g \in requested \ SpecialFilters : isValidFilter(normalizeFilterName(g))}}

\* The verdict of the i-th filter of the chain on the line of the last call,
\* on its own, with the cache as it stood before the call.
keepsAlone(i) == applyFilter(Self, filters[i], argPath, argParams, prev.contentPrefixes).keep

\* The store or the seen names and patterns changed in the last call.
storeTouched ==
    \/ urlMap # prev.urlMap
    \/ paramsSeen # prev.paramsSeen
    \/ patternsSeen # prev.patternsSeen

\* C29: the chain is the content filter, the extension filter, then the
\* user-requested filters; a line reaches the update of the store and of the
\* seen names only if every filter of the chain keeps it; evaluation stops at
\* the first rejection, so that ContentPrefixCache is not modified for a line
\* that a filter placed before the content filter rejects.
C29_Chain ==
    Processed
        => /\ SubSeq(filters, 1, Len(builtIn)) = builtIn
           /\ Range(SubSeq(filters, Len(builtIn) + 1, Len(filters))) = userFilters
           /\ (ret \/ storeTouched)
                => \A i \in 1..Len(filters) :
                     (filters[i] # "removecontent"
                        \/ \A j \in 1..(i - 1) : filters[j] # "removecontent")
                        => keepsAlone(i)
           /\ (\E i \in 1..Len(filters) :
                 /\ ~keepsAlone(i)
                 /\ \A j \in 1..i : filters[j] # "removecontent")
                => /\ ~ret
                   /\ ~storeTouched
                   /\ contentPrefixes = prev.contentPrefixes

C29_Witness ==
    /\ Processed
    /\ ~ret
    /\ filters = <<"blacklist", "hasparams", "removecontent">>
    /\ arg = "http://h/blog"
    /\ contentOf[argPath].end # 0
    /\ checkContent(argPath, prev.contentPrefixes).keep
    /\ contentPrefixes = <<"/blogs">>
    /\ "http://g/blogs?a=1" \in prev.kept

\* C30: two processors constructed with the same options and given the same
\* sequence of calls return the same value from every Process and hold the
\* same stored (host, path, ParamSet) entries, in whatever order the filter
\* names reach the chain.
C30_Deterministic ==
    /\ op = "Process" => ret = twin.ret
    /\ \A h \in DOMAIN urlMap \cup DOMAIN twin.urlMap :
          \A q \in Paths :
             /\ HasEntry(urlMap, h, q) = HasEntry(twin.urlMap, h, q)
             /\ Range(Entry(urlMap, h, q)) = Range(Entry(twin.urlMap, h, q))

\* C31: the processor whose rule for a stored path is compareParams alone,
\* given the same calls, returns from every Process what the processor with
\* the additional test against SeenParamNames returns, and holds the same
\* store, patterns and content prefixes.
C31_SingleTest ==
    /\ op = "Process" => ret = twin.ret
    /\ urlMap = twin.urlMap
    /\ patternsSeen = twin.patternsSeen
    /\ contentPrefixes = twin.contentPrefixes

C31_Witness ==
    /\ twin.impl = "single"
    /\ Processed
    /\ ret
    /\ twin.ret
    /\ HasEntry(prev.urlMap, argHost, argPath)
    /\ DOMAIN argParams \ prev.paramsSeen # {}
    /\ Len(urlMap[argHost][argPath]) = 2
    /\ urlMap = twin.urlMap

\* C32: in every state, every parameter name of every ParamSet stored in
\* DedupStore, for any host and path, is in SeenParamNames.
C32_StoredNamesSeen == namesIn(urlMap) \subseteq paramsSeen

C32_Witness ==
    /\ op = "Process"
    /\ ret
    /\ namesIn(urlMap) = {"x", "y"}
    /\ paramsSeen = {"x", "y", "z"}

C34_Aliases == op = "Process" => ret = twin.ret

\* A prefix list without duplicates in which no entry starts with an entry
\* appended before it.
prefixFree(prefixes) ==
    \A i, j \in 1..Len(prefixes) : i < j => ~HasPrefix(prefixes[j], prefixes[i])

\* C35: the content prefix cache holds no entry twice, no entry starts with
\* an entry appended before it, and a Process call appends at most one entry
\* to it, also when the content filter is in the chain twice.
C35_PrefixFree ==
    /\ prefixFree(contentPrefixes)
    /\ prefixFree(twin.contentPrefixes)
    /\ op = "Process" =>
          /\ Len(contentPrefixes) <= Len(prev.contentPrefixes) + 1
          /\ Upto(contentPrefixes, Len(prev.contentPrefixes)) = prev.contentPrefixes

\* Two Process calls, each of which ran the content filter twice, appended
\* one prefix each.
C35_Witness ==
    /\ op = "Process"
    /\ Cardinality({i \in 1..Len(filters) : filters[i] = "removecontent"}) = 2
    /\ Len(prev.contentPrefixes) = 1
    /\ Len(contentPrefixes) = 2

\* C36 as stated: with a whitelist configured and noext requested, no Process
\* call returns true and the store stays empty.
C36_NoExtWhitelist ==
    (opts.Whitelist # <<>> /\ "noext" \in requested) =>
        /\ urlMap = EmptyMap
        /\ op = "Process" => ~ret

\* C36: with a whitelist configured, noext requested and allexts not
\* requested, no Process call returns true and the store stays empty, in the
\* processor and in the URLProcessor next to it.
C36_StrictWhitelist ==
    (opts.Whitelist # <<>> /\ "noext" \in requested /\ "allexts" \notin requested) =>
        /\ urlMap = EmptyMap
        /\ twin.urlMap = EmptyMap
        /\ op = "Process" => (~ret /\ ~twin.ret)

\* A path with a whitelisted extension is dropped after one without an
\* extension was.
C36_Witness ==
    /\ opts.Whitelist # <<>> /\ "noext" \in requested /\ "allexts" \notin requested
    /\ op = "Process"
    /\ arg = "http://h/index.php"
    /\ "http://h/api/users" \in prev.dropped
    /\ ~ret

\* C37: a processor whose options list a filter that is active by default
\* (removecontent, blacklist, whitelist) and one whose options do not, given
\* the same calls, return the same value from every Process.
C37_Explicit == op = "Process" => ret = twin.ret

====
